---------------------------- MODULE Spec2Model ----------------------------
(***************************************************************************)
(* Chain aggregation and forwarding protocol of the SMOKE relay firmware.  *)
(*                                                                         *)
(* Three firmware generations of the repository are modelled:              *)
(*   SMOKE v3       src/ice_ble_uart/ice_ble_uart.ino  (binary fragments)   *)
(*   Unified v2.2   src/unnamed/part_002               (COBS/TLV messages)  *)
(*   text-AGG       src/smoke_chain_s3/smoke_chain_s3.ino (AGG: lines)      *)
(* Every handler is an operator from the node's state and the handler's    *)
(* input to the node's next state; a specification picks the nodes, the    *)
(* inputs and the history variables it records.                            *)
(***************************************************************************)
EXTENDS Integers, Sequences, FiniteSets, TLC

VARIABLES
  fw,         \* the firmware this behaviour runs: "v3", "u22", "agg" or a chain
  audit,      \* the analysis: which inputs are fed and which history is recorded
  smoke,      \* SMOKE v3: the node under test (record, see SmokeInit)
  uni,        \* Unified v2.2: the node under test (record, see UniInit)
  agg,        \* text-AGG: the node under test (record, see AggInit)
  chain,      \* two-node chain: room -> node
  air,        \* two-node chain: the datagrams broadcast so far
  obs,        \* history: id -> strengths observed locally in the current window
  base,       \* history: id -> the strength "left" in the table when the window
              \*   began and the strengths merged from the "radio" since
  merged,     \* history: dev -> the strongest <<rssi, room>> pairs written into
              \*   chainBest since it was last cleared
  rxFor,      \* history: batch -> devs received (or seeded locally) for that batch
  rxIdx,      \* history: <<batch, index>> of the accepted fragments
  rxTotal,    \* history: total field of the last accepted fragment
  finalCount, \* history: batch -> FINAL snapshots printed for it (saturating)
  fwdCount,   \* history: message key -> forward actions fired (saturating)
  got,        \* history: message key -> fragment indices accepted since the
              \*   key's reassembly buffer was created
  lastRx,     \* history: whether the fragment just delivered was the last
              \*   missing index of its key, and whether the key was new
  handled,    \* history: keys of the messages completed or processed so far
  flushes,    \* history: flush periods elapsed (text-AGG)
  winners     \* history: id -> rooms of the strongest observations when the
              \*   last AGG/UI line was built

hist == <<obs, base, merged, rxFor, rxIdx, rxTotal, finalCount, fwdCount, got, lastRx, handled,
         flushes, winners>>

nodes == <<smoke, uni, agg, chain, air>>

vars == <<fw, audit, nodes, hist>>

---------------------------------------------------------------------------
(* Bounds of the exploration *)

MaxBatch == 2
MaxCount == 2
MaxTotal == 2
SatCount == 2

(* Program constants *)

ESN_PAYLOAD_MAX == 250
ESN_FRAG_DATA_MAX == 200
SizeofEsnHdr == 11
SizeofEntry == 4

Dev == {1, 2}
RssiVals == {-70, -50}
EntryRooms == {1, 2}
Batches == 1..MaxBatch

---------------------------------------------------------------------------
(* Fixed-width conversions *)

ToU8(x) == x % 256

ToInt8(x) == ((x + 128) % 256) - 128

Min(a, b) == IF a < b THEN a ELSE b

SetMax(S) == CHOOSE x \in S : \A y \in S : y <= x

(* std::map as a function; iteration is in ascending key order *)

EmptyMap == [k \in {} |-> 0]

MapPut(m, k, v) == [x \in (DOMAIN m) \cup {k} |-> IF x = k THEN v ELSE m[x]]

RECURSIVE SortedKeys(_)
SortedKeys(S) ==
  IF S = {} THEN <<>>
  ELSE LET lo == CHOOSE x \in S : \A y \in S : x <= y
       IN <<lo>> \o SortedKeys(S \ {lo})

---------------------------------------------------------------------------
(* SMOKE v3 *)

NoFinal == [printed |-> FALSE, batch |-> 0, lines |-> <<>>]

\* State of a node after setup(): configuration comes from SPIFFS.
SmokeInit(room, tail) ==
  [ room        |-> room,
    tail        |-> tail,
    batch       |-> 1,
    localBest   |-> EmptyMap,
    chainBest   |-> EmptyMap,
    lastPrinted |-> 0,
    sent        |-> <<>>,
    final       |-> NoFinal ]

\* for (auto &kv : chainBest) all.push_back(Entry{...})
ChainEntries(cb) ==
  LET ks == SortedKeys(DOMAIN cb)
  IN [i \in 1..Len(ks) |-> [dev |-> ks[i], rssi |-> cb[ks[i]].rssi, room |-> cb[ks[i]].room]]

\* Fragments sized by the ESP-NOW payload limit rather than by the data limit.
PerFragByPayload == ESN_PAYLOAD_MAX \div SizeofEntry

PerFrag == ESN_FRAG_DATA_MAX \div SizeofEntry

FragTotal(n) ==
  LET t == ToU8((n + PerFrag - 1) \div PerFrag) IN IF t = 0 THEN 1 ELSE t

\* One datagram of the fragment loop (shared shape of both send sites).
FragAt(vec, idx, total, room, batch) ==
  LET off  == idx * PerFrag
      take == Min(PerFrag, Len(vec) - off)
  IN [ ok       |-> TRUE,
       src_room |-> room,
       total    |-> total,
       index    |-> idx,
       count    |-> ToU8(take),
       batch    |-> batch,
       ents     |-> SubSeq(vec, off + 1, off + take),
       bytes    |-> SizeofEsnHdr + take * SizeofEntry ]

esn_send_entries(vec, batch, room) ==
  LET total == FragTotal(Len(vec))
  IN [i \in 1..total |-> FragAt(vec, i - 1, total, room, batch)]

\* A forward that stamps the relay's own counter, which never leaves 1.
ForwardOwnBatch(cb, useBatch, room) ==
  LET all   == ChainEntries(cb)
      total == FragTotal(Len(all))
  IN [i \in 1..total |-> FragAt(all, i - 1, total, room, 1)]

ForwardFrags(cb, useBatch, room) ==
  LET all   == ChainEntries(cb)
      total == FragTotal(Len(all))
  IN [i \in 1..total |-> FragAt(all, i - 1, total, room, useBatch)]

\* A merge that lets the entry merged last win (what C2 must rule out).
MergeLastWins(cb, e) == TRUE

\* if (it==chainBest.end() || rssi > it->second.rssi)
MergeWins(cb, e) == e.dev \notin DOMAIN cb \/ e.rssi > cb[e.dev].rssi

RECURSIVE MergeEntries(_, _, _, _)
MergeEntries(cb, ents, i, count) ==
  IF i > count THEN cb
  ELSE LET e == ents[i]
       IN MergeEntries(IF MergeWins(cb, e)
                         THEN MapPut(cb, e.dev, [rssi |-> e.rssi, room |-> e.room])
                         ELSE cb,
                       ents, i + 1, count)

\* A receive filter that hears the node's own room only.
RecvOwnRoomOnly(nd, d) ==
  /\ d.ok
  /\ d.src_room = nd.room
  /\ SizeofEsnHdr + d.count * SizeofEntry <= d.bytes

\* The filters at the head of the receive callback.
RecvAccepts(nd, d) ==
  /\ d.ok
  /\ d.src_room = nd.room \/ d.src_room = ToU8(nd.room - 1)
  /\ SizeofEsnHdr + d.count * SizeofEntry <= d.bytes

\* h->index==h->total-1 && h->batch!=lastPrinted
TailPrints(nd, d) == d.index = d.total - 1 /\ d.batch # nd.lastPrinted

FinalLines(cb) ==
  LET all == ChainEntries(cb)
  IN [i \in 1..Len(all) |-> <<all[i].room, all[i].dev, all[i].rssi>>]

\* The receive callback registered in esn_setup.
RecvCb(nd, d) ==
  IF ~RecvAccepts(nd, d)
  THEN [nd EXCEPT !.sent = <<>>, !.final = NoFinal]
  ELSE LET cb == MergeEntries(nd.chainBest, d.ents, 1, d.count)
       IN IF ~nd.tail
          THEN [nd EXCEPT !.chainBest = cb,
                          !.sent = ForwardFrags(cb, d.batch, nd.room),
                          !.final = NoFinal]
          ELSE IF TailPrints(nd, d)
               THEN [nd EXCEPT !.chainBest = cb,
                               !.lastPrinted = d.batch,
                               !.sent = <<>>,
                               !.final = [printed |-> TRUE, batch |-> d.batch,
                                          lines |-> FinalLines(cb)]]
               ELSE [nd EXCEPT !.chainBest = cb, !.sent = <<>>, !.final = NoFinal]

startNewBatchIfRoom1(nd) ==
  IF nd.room = 1
  THEN [nd EXCEPT !.batch = nd.batch + 1, !.chainBest = EmptyMap]
  ELSE nd

\* for (auto &kv : localBest) chainBest[kv.first] = { kv.second, g_room };
SeedChain(cb, lb, room) ==
  [k \in (DOMAIN cb) \cup (DOMAIN lb) |->
     IF k \in DOMAIN lb THEN [rssi |-> lb[k], room |-> room] ELSE cb[k]]

flushAndSendIfNeeded(nd) ==
  IF nd.room # 1 \/ nd.tail
  THEN nd
  ELSE LET cb    == SeedChain(nd.chainBest, nd.localBest, nd.room)
           start == ChainEntries(cb)
       IN IF Len(start) = 0
          THEN [nd EXCEPT !.chainBest = cb]
          ELSE [nd EXCEPT !.chainBest = cb,
                          !.sent = esn_send_entries(start, nd.batch, nd.room)]

\* END marker (or timeout): new batch, flush, clear localBest
EndOfScan(nd) ==
  LET n1 == startNewBatchIfRoom1([nd EXCEPT !.sent = <<>>, !.final = NoFinal])
      n2 == flushAndSendIfNeeded(n1)
  IN [n2 EXCEPT !.localBest = EmptyMap]

\* A table that keeps the observation recorded last.
LocalLastWins(lb, dev, v) == TRUE

\* if (lb==localBest.end() || v > lb->second) localBest[dev]=v;
LocalWins(lb, dev, v) == dev \notin DOMAIN lb \/ v > lb[dev]

\* One "NAME@RSSI" line whose name is bound to dev (dev = 0: unbound name).
RecordLine(nd, dev, rssi) ==
  LET v  == ToInt8(rssi)
      n0 == [nd EXCEPT !.sent = <<>>, !.final = NoFinal]
  IN IF dev # 0 /\ LocalWins(nd.localBest, dev, v)
     THEN [n0 EXCEPT !.localBest = MapPut(nd.localBest, dev, v)]
     ELSE n0

\* if (!g_is_tail && g_room==1) if (millis()-lastLineMs > 1000 && !localBest.empty())
TimeoutFlushes(nd) == ~nd.tail /\ nd.room = 1 /\ DOMAIN nd.localBest # {}

---------------------------------------------------------------------------
(* SMOKE v3: one node, its UART lines and the datagrams the radio delivers *)

EntryVals == [dev : Dev, rssi : RssiVals, room : EntryRooms]

\* Entry lists as a sender builds them: from a std::map, ascending distinct devs.
RECURSIVE EntLists(_)
EntLists(n) ==
  IF n = 0 THEN {<<>>}
  ELSE LET shorter == EntLists(n - 1)
       IN shorter \cup
          {Append(l, e) : l \in {x \in shorter : Len(x) = n - 1}, e \in EntryVals}

Ascending(l) == \A i \in 1..(Len(l) - 1) : l[i].dev < l[i + 1].dev

AscLists == {l \in EntLists(MaxCount) : Ascending(l)}

Datagram(src, total, index, batch, ents) ==
  [ ok |-> TRUE, src_room |-> src, total |-> total, index |-> index,
    count |-> Len(ents), batch |-> batch, ents |-> ents,
    bytes |-> SizeofEsnHdr + Len(ents) * SizeofEntry ]

Headers(totals, batches) ==
  {h \in [total : totals, index : 0..(MaxTotal - 1), batch : batches] : h.index < h.total}

\* Datagrams the callback drops: stamped by a room that is neither the node's
\* nor the previous one, a wrong magic, and one cut short of its count.
Rejects(room) ==
  { Datagram(ToU8(room + 1), 1, 0, 1, <<[dev |-> 1, rssi |-> -50, room |-> 2]>>),
    [Datagram(ToU8(room - 1), 1, 0, 1, <<>>) EXCEPT !.ok = FALSE],
    [Datagram(ToU8(room - 1), 1, 0, 1, <<>>) EXCEPT !.count = 1] }

Stamped(srcs, hdrs, lists) ==
  {Datagram(src, h.total, h.index, h.batch, ents) : src \in srcs, h \in hdrs, ents \in lists}

NodeRooms == {1, 2}

OneEntry == <<[dev |-> 1, rssi |-> -50, room |-> 1]>>

\* The datagrams each analysis delivers to a node configured as `room`.
DgMerge ==
  [room \in NodeRooms |->
     Stamped({ToU8(room - 1), room}, Headers({1}, {1}), AscLists) \cup Rejects(room)]

DgBatch ==
  [room \in NodeRooms |->
     Stamped({ToU8(room - 1)}, Headers({1}, Batches), {l \in AscLists : Len(l) <= 1})
       \cup Rejects(room)]

DgFrag ==
  [room \in NodeRooms |->
     Stamped({ToU8(room - 1), room}, Headers(1..MaxTotal, Batches), {<<>>, OneEntry})
       \cup Rejects(room)]

DgLocal ==
  [room \in NodeRooms |-> Stamped({ToU8(room - 1)}, Headers({1}, {1}), {OneEntry})]

Datagrams(room) ==
  CASE audit = "merge" -> DgMerge[room]
    [] audit \in {"batch", "origin"} -> DgBatch[room]
    [] audit = "frag"  -> DgFrag[room]
    [] OTHER           -> DgLocal[room]

\* The "NAME@RSSI" lines each analysis feeds to the UART (dev 0: unbound name).
LineRssi == {-90, -70, -50}

Lines ==
  IF audit = "local" THEN (Dev \cup {0}) \X LineRssi
  ELSE IF audit \in {"frag", "tail"} THEN {0, 1} \X {-50}
  ELSE IF audit = "batch" THEN (Dev \cup {0}) \X {-50}
  ELSE (Dev \cup {0}) \X RssiVals

DevsOf(ents, count) == {ents[i].dev : i \in 1..count}

\* -- history updates ----------------------------------------------------

PairsFor(ents, count, dev) ==
  {<<ents[i].rssi, ents[i].room>> : i \in {j \in 1..count : ents[j].dev = dev}}

Strongest(P) == {p \in P : \A q \in P : q[1] <= p[1]}

MergedAfterRecv(d) ==
  [dev \in Dev |-> Strongest(merged[dev] \cup PairsFor(d.ents, d.count, dev))]

MergedAfterFlush(nd) ==
  IF nd.room # 1 THEN merged
  ELSE [dev \in Dev |->
          IF ~nd.tail /\ dev \in DOMAIN nd.localBest
          THEN {<<nd.localBest[dev], nd.room>>} ELSE {}]

Bump(f, k) ==
  IF k \in DOMAIN f THEN [f EXCEPT ![k] = Min(f[k] + 1, SatCount)] ELSE MapPut(f, k, 1)

NoRx == [last |-> FALSE, key |-> <<>>, index |-> 0, first |-> FALSE]

HistInit ==
  /\ merged = [dev \in Dev |-> {}]
  /\ rxFor = [b \in 1..(MaxBatch + 1) |-> {}]
  /\ rxIdx = {}
  /\ rxTotal = 0
  /\ finalCount = EmptyMap
  /\ fwdCount = EmptyMap
  /\ base = EmptyMap
  /\ got = EmptyMap
  /\ lastRx = NoRx
  /\ handled = {}
  /\ flushes = 0
  /\ winners = EmptyMap

\* -- actions --------------------------------------------------------------

RunV3 ==
  /\ fw = "v3"
  /\ UNCHANGED <<fw, audit, uni, agg, chain, air, base, got, handled, flushes, winners>>

\* The fragment the callback was last called with, kept for the batch-origin analysis.
RxAfter(rec) == IF audit \in {"origin", "tail"} THEN rec ELSE lastRx

V3Line(dev, rssi) ==
  /\ RunV3
  /\ smoke' = RecordLine(smoke, dev, rssi)
  /\ obs' = IF audit = "local" /\ dev # 0
            THEN [obs EXCEPT ![dev] = @ \cup {rssi}] ELSE obs
  /\ lastRx' = RxAfter(NoRx)
  /\ UNCHANGED <<merged, rxFor, rxIdx, rxTotal, finalCount, fwdCount>>

V3Flush ==
  /\ RunV3
  /\ smoke.room = 1 => smoke.batch <= MaxBatch
  /\ smoke' = EndOfScan(smoke)
  /\ obs' = [dev \in Dev |-> {}]
  /\ merged' = IF audit = "merge" THEN MergedAfterFlush(smoke) ELSE merged
  /\ rxFor' = IF audit = "batch" /\ smoke.room = 1 /\ ~smoke.tail
              THEN [rxFor EXCEPT ![smoke.batch + 1] = @ \cup DOMAIN smoke.localBest]
              ELSE rxFor
  /\ lastRx' = RxAfter(NoRx)
  /\ UNCHANGED <<rxIdx, rxTotal, finalCount, fwdCount>>

V3EndLine == V3Flush

V3Timeout == fw = "v3" /\ TimeoutFlushes(smoke) /\ V3Flush

V3JunkLine ==
  /\ RunV3
  /\ smoke' = [smoke EXCEPT !.sent = <<>>, !.final = NoFinal]
  /\ lastRx' = RxAfter(NoRx)
  /\ UNCHANGED <<obs, merged, rxFor, rxIdx, rxTotal, finalCount, fwdCount>>

V3Recv(d) ==
  LET acc == RecvAccepts(smoke, d)
  IN /\ RunV3
     /\ smoke' = RecvCb(smoke, d)
     /\ lastRx' = RxAfter([last |-> acc, key |-> <<d.src_room, d.batch>>,
                           index |-> d.index, first |-> FALSE])
     /\ merged' = IF audit = "merge" /\ acc THEN MergedAfterRecv(d) ELSE merged
     /\ rxFor' = IF audit = "batch" /\ acc
                 THEN [rxFor EXCEPT ![d.batch] = @ \cup DevsOf(d.ents, d.count)]
                 ELSE rxFor
     /\ rxIdx' = IF audit = "frag" /\ acc /\ smoke.tail
                 THEN rxIdx \cup {<<d.batch, d.index>>} ELSE rxIdx
     /\ rxTotal' = IF audit = "frag" /\ acc /\ smoke.tail THEN d.total ELSE rxTotal
     /\ finalCount' = IF audit = "frag" /\ smoke'.final.printed
                      THEN Bump(finalCount, d.batch) ELSE finalCount
     /\ fwdCount' = IF audit \in {"frag", "local"} /\ smoke'.sent # <<>>
                    THEN Bump(fwdCount, <<d.src_room, d.batch>>) ELSE fwdCount
     /\ UNCHANGED obs

NextV3 ==
  \/ \E l \in Lines : V3Line(l[1], l[2])
  \/ V3EndLine
  \/ V3Timeout
  \/ V3JunkLine
  \/ \E d \in Datagrams(smoke.room) : V3Recv(d)

InitV3(aud) ==
  /\ fw = "v3"
  /\ audit = aud
  /\ smoke \in {SmokeInit(room, tail) : room \in NodeRooms, tail \in BOOLEAN}
  /\ uni = 0 /\ agg = 0 /\ chain = 0 /\ air = 0
  /\ HistInit
  /\ obs = [dev \in Dev |-> {}]

Spec == InitV3("merge") /\ [][NextV3]_vars

SpecBatch == InitV3("batch") /\ [][NextV3]_vars

SpecFrag == InitV3("frag") /\ [][NextV3]_vars

SpecOrigin == InitV3("origin") /\ [][NextV3]_vars

---------------------------------------------------------------------------
(* Bytes: CRC16-CCITT, COBS and the ICE message layout *)

RECURSIVE BitXor(_, _)
BitXor(a, b) ==
  IF a = 0 THEN b
  ELSE IF b = 0 THEN a
  ELSE ((a + b) % 2) + 2 * BitXor(a \div 2, b \div 2)

\* crc = (crc & 0x8000) ? ((crc << 1) ^ 0x1021) : (crc << 1), in 16 bits
CrcShift(crc) ==
  IF crc >= 32768 THEN BitXor((crc * 2) % 65536, 4129) ELSE (crc * 2) % 65536

\* crc ^= byte << 8, then eight shifts
CrcByte(crc, b) ==
  CrcShift(CrcShift(CrcShift(CrcShift(
    CrcShift(CrcShift(CrcShift(CrcShift(BitXor(crc, b * 256)))))))))

\* A loop over i = 1..n carrying acc: the range is halved so that the depth of
\* the evaluation stays logarithmic in n.
FoldRange(Step(_, _), init, n, Accs) ==
  LET run[a \in 1..(n + 1), b \in 0..n, acc \in Accs] ==
        IF a > b THEN acc
        ELSE IF a = b THEN Step(acc, a)
        ELSE run[((a + b) \div 2) + 1, b, run[a, (a + b) \div 2, acc]]
  IN run[1, n, init]

Bytes == Seq(0..255)

\* A checksum that covers the 16 header bytes only.
CrcHeaderOnly(d, n) ==
  LET Step(crc, i) == CrcByte(crc, d[i])
  IN FoldRange(Step, 65535, IF n < 16 THEN n ELSE 16, 0..65535)

\* crc16_ccitt(d, n) with the default initial value 0xFFFF
crc16_ccitt(d, n) ==
  LET Step(crc, i) == CrcByte(crc, d[i])
  IN FoldRange(Step, 65535, n, 0..65535)

put_u16_le(v) == <<v % 256, (v \div 256) % 256>>

put_u32_le(v) ==
  <<v % 256, (v \div 256) % 256, (v \div 65536) % 256, (v \div 16777216) % 256>>

get_u16_le(m, at) == m[at + 1] + 256 * m[at + 2]

get_u32_le(m, at) ==
  m[at + 1] + 256 * m[at + 2] + 65536 * m[at + 3] + 16777216 * m[at + 4]

\* COBS encoder of the ICE sender. st[i] is the encoder after i input bytes:
\* the output so far, the place of the pending code byte and the code.
CobsEncodeStep(st, b) ==
  IF b = 0
  THEN [out |-> Append([st.out EXCEPT ![st.codePtr] = st.code], 0),
        codePtr |-> Len(st.out) + 1, code |-> 1]
  ELSE IF st.code + 1 = 255
       THEN [out |-> Append([Append(st.out, b) EXCEPT ![st.codePtr] = 255], 0),
             codePtr |-> Len(st.out) + 2, code |-> 1]
       ELSE [out |-> Append(st.out, b), codePtr |-> st.codePtr, code |-> st.code + 1]

cobs_encode(in) ==
  LET Step(st, i) == CobsEncodeStep(st, in[i])
      last == FoldRange(Step, [out |-> <<0>>, codePtr |-> 1, code |-> 1], Len(in),
                        [out : Bytes, codePtr : Nat, code : 1..255])
  IN [last.out EXCEPT ![last.codePtr] = last.code]

\* A decoder that writes the implied zero after a full block as well.
CobsDecodeZeroAfterFull(in, st, outMax) ==
  LET code == in[st.ip + 1]
      ip1  == st.ip + 1
      out1 == st.out \o SubSeq(in, ip1 + 1, ip1 + code - 1)
      ip2  == ip1 + code - 1
  IN IF code = 0 \/ ip1 + (code - 1) > Len(in) THEN [st EXCEPT !.fail = TRUE]
     ELSE IF ip2 < Len(in) THEN [ip |-> ip2, out |-> Append(out1, 0), fail |-> FALSE]
     ELSE [ip |-> ip2, out |-> out1, fail |-> FALSE]

\* COBS decoder of the relay: one block per step. ip counts the consumed
\* bytes; a failure is the return value 0, here the empty output.
CobsDecodeBlock(in, st, outMax) ==
  LET code == in[st.ip + 1]
      ip1  == st.ip + 1
      out1 == st.out \o SubSeq(in, ip1 + 1, ip1 + code - 1)
      ip2  == ip1 + code - 1
  IN IF code = 0 \/ ip1 + (code - 1) > Len(in) THEN [st EXCEPT !.fail = TRUE]
     ELSE IF Len(st.out) + (code - 1) > outMax THEN [st EXCEPT !.fail = TRUE]
     ELSE IF code # 255 /\ ip2 < Len(in)
          THEN IF Len(out1) >= outMax THEN [st EXCEPT !.fail = TRUE]
               ELSE [ip |-> ip2, out |-> Append(out1, 0), fail |-> FALSE]
          ELSE [ip |-> ip2, out |-> out1, fail |-> FALSE]

\* while (ip < end): at most one block per input byte
cobs_decode(in, outMax) ==
  LET Step(st, k) == IF st.fail \/ st.ip >= Len(in) THEN st
                     ELSE CobsDecodeBlock(in, st, outMax)
      last == FoldRange(Step, [ip |-> 0, out |-> <<>>, fail |-> FALSE], Len(in),
                        [ip : Nat, out : Bytes, fail : BOOLEAN])
  IN IF last.fail THEN <<>> ELSE last.out

MT_DATA == 0
MT_END == 1
MsgHeaderLen == 16

\* begin_message: VER, TYPE, ORIGIN[6], batch, seq, COUNT
begin_message(type, origin, batch, seq) ==
  <<1, type>> \o origin \o put_u32_le(batch) \o put_u16_le(seq) \o put_u16_le(0)

\* The TLVs append_device_record writes for one advertisement.
DeviceRecord(mac, rssi, name) ==
  <<1, 6>> \o mac \o <<2, 1, ToU8(ToInt8(rssi))>> \o <<3, 1, 0>>
    \o (IF Len(name) > 0 THEN <<4, Len(name)>> \o name ELSE <<>>)

RecordsBytes(recs) ==
  LET Step(acc, i) == acc \o DeviceRecord(recs[i].mac, recs[i].rssi, recs[i].name)
  IN FoldRange(Step, <<>>, Len(recs), Bytes)

\* finish_and_send_message: fill COUNT, append the CRC (low byte first)
FinishMessage(head, payload, count) ==
  LET body == SubSeq(head, 1, 14) \o put_u16_le(count) \o payload
      crc  == crc16_ccitt(body, Len(body))
  IN body \o <<crc % 256, crc \div 256>>

IceData(origin, batch, seq, recs) ==
  FinishMessage(begin_message(MT_DATA, origin, batch, seq), RecordsBytes(recs), Len(recs))

IceEnd(origin, batch, seq) ==
  FinishMessage(begin_message(MT_END, origin, batch, seq), <<>>, 0)

---------------------------------------------------------------------------
(* Unified v2.2 *)

SizeofEsnFrag == 20
SEEN_CACHE_MAX == 256
FRAME_MAX == 2000
DECODE_MAX == 2000
MinMsgLen == 18
NoDev == 65535
StaleMs == 3000

\* The byte at C index p of m.
B(m, p) == m[p + 1]

Slice(m, from, n) == SubSeq(m, from + 1, from + n)

Zeros(n) == [i \in 1..n |-> 0]

\* binds.csv of the nodes under test: the tags' MACs; no name is bound.
MacOf(dev) == <<170, 187, 204, 0, 0, dev>>

mac2dev(mk) == IF \E d \in Dev : MacOf(d) = mk THEN mk[6] ELSE NoDev

UniInit(room, tail, esn) ==
  [ room      |-> room,
    tail      |-> tail,
    esn       |-> esn,
    bestRssi  |-> EmptyMap,
    seenCache |-> <<>>,
    reasmList |-> <<>>,
    sent      |-> <<>>,      \* fragments handed to esp_now_send by this call
    printed   |-> {},        \* "room.dev@rssi" lines printed by this call
    proc      |-> "none",    \* what processDecodedMessage did in this call
    reasm     |-> <<>> ]     \* the message completed by this call, if any

UniQuiet(nd) == [nd EXCEPT !.sent = <<>>, !.printed = {}, !.proc = "none", !.reasm = <<>>]

SeenKey(origin, batch, seq, src_room) == <<origin, batch, seq, src_room>>

InSeen(cache, sk) == \E i \in 1..Len(cache) : cache[i] = sk

\* A seen-cache policy that drops the newest entry when the cache is full.
SeenPushDropNewest(cache, sk) ==
  Append(IF Len(cache) >= SEEN_CACHE_MAX THEN SubSeq(cache, 1, Len(cache) - 1) ELSE cache, sk)

\* if(seenCache.size()>=SEEN_CACHE_MAX) erase(begin()); push_back(sk)
SeenPush(cache, sk) ==
  Append(IF Len(cache) >= SEEN_CACHE_MAX THEN Tail(cache) ELSE cache, sk)

\* One device record at p: the next position, the record if one was read, and
\* whether the loop goes on.
ParseRecord(m, p, end) ==
  LET stop == [p |-> p, rec |-> <<>>, more |-> FALSE]
      p1 == p + 2
      p2 == p1 + 6
      p3 == p2 + 2
      p4 == p3 + 1
      p5 == p4 + 2
      p6 == p5 + 1
      L4 == B(m, p6 + 1)
      p7 == IF p6 + 2 <= end /\ B(m, p6) = 4
            THEN IF p6 + 2 + L4 <= end THEN p6 + 2 + L4 ELSE p6 + 2
            ELSE p6
  IN IF ~(B(m, p) = 1 /\ B(m, p + 1) = 6) \/ p1 + 6 > end THEN stop
     ELSE IF p2 + 2 > end THEN stop
     ELSE IF ~(B(m, p2) = 2 /\ B(m, p2 + 1) = 1) \/ p3 + 1 > end THEN stop
     ELSE IF p4 + 2 > end THEN stop
     ELSE IF ~(B(m, p4) = 3 /\ B(m, p4 + 1) = 1) \/ p5 + 1 > end THEN stop
     ELSE [p |-> p7, rec |-> <<mac2dev(Slice(m, p1, 6)), ToInt8(B(m, p3))>>, more |-> TRUE]

\* The <<devNum, rssi>> of the records the parse loop reads, in order.
ParsedRecords(m, n) ==
  LET count == get_u16_le(m, 14)
      end   == n - 2
      Step(st, i) ==
        IF ~st.more \/ st.p + 2 > end THEN [st EXCEPT !.more = FALSE]
        ELSE LET r == ParseRecord(m, st.p, end)
             IN [p |-> r.p, recs |-> st.recs \o (IF r.more THEN <<r.rec>> ELSE <<>>),
                 more |-> r.more]
  IN FoldRange(Step, [p |-> MsgHeaderLen, recs |-> <<>>, more |-> TRUE], count,
               [p : Nat, recs : Seq(Nat \X Int), more : BOOLEAN]).recs

\* if(it==bestRssi.end() || rssi>it->second) bestRssi[k]=rssi;
BestWins(best, k, rssi) == k \notin DOMAIN best \/ rssi > best[k]

RECURSIVE RecordAll(_, _, _, _)
RecordAll(best, recs, i, src_room) ==
  IF i > Len(recs) THEN best
  ELSE LET k == <<src_room, recs[i][1]>>
       IN RecordAll(IF recs[i][1] # NoDev /\ BestWins(best, k, recs[i][2])
                      THEN MapPut(best, k, recs[i][2]) ELSE best,
                    recs, i + 1, src_room)

parseAndMaybeRecord(best, m, n, src_room) ==
  RecordAll(best, ParsedRecords(m, n), 1, src_room)

\* endOfScanFlush: the lines printed and the table without the flushed room
FlushLines(best, room) == {<<k[1], k[2], best[k]>> : k \in {x \in DOMAIN best : x[1] = room}}

FlushRest(best, room) == [k \in {x \in DOMAIN best : x[1] # room} |-> best[k]]

\* Fragments forward_upstream hands to esp_now_send.
forward_upstream(nd, src_room, m, n, origin, batch, seq) ==
  IF ~nd.esn \/ nd.tail THEN <<>>
  ELSE IF ~(src_room = nd.room \/ src_room = ToU8(nd.room - 1)) THEN <<>>
  ELSE LET t     == ToU8((n + ESN_FRAG_DATA_MAX - 1) \div ESN_FRAG_DATA_MAX)
           total == IF t = 0 THEN 1 ELSE t
       IN [i \in 1..total |->
             LET off  == (i - 1) * ESN_FRAG_DATA_MAX
                 left == n - off
                 take == IF left < ESN_FRAG_DATA_MAX THEN left ELSE ESN_FRAG_DATA_MAX
             IN [ ok |-> TRUE, src_room |-> src_room, total |-> total, index |-> i - 1,
                  origin |-> origin, batch |-> batch, seq |-> seq,
                  frag_len |-> take % 65536, data |-> Slice(m, off, take),
                  len |-> SizeofEsnFrag + take ]]

\* -- the messages of the ICE that the analyses feed ---------------------------

NAME_MAX_LEN == 32
IceOrigin == <<16, 32, 48, 64, 80, 96>>
LongName == [j \in 1..NAME_MAX_LEN |-> 65]

\* A message of the ICE sender: what it reports and the bytes it writes.
DataMsg(seq, recs) ==
  [typ |-> MT_DATA, seq |-> seq, recs |-> recs, bytes |-> IceData(IceOrigin, 1, seq, recs)]

EndMsg(seq) ==
  [typ |-> MT_END, seq |-> seq, recs |-> <<>>, bytes |-> IceEnd(IceOrigin, 1, seq)]

Named(n) == [i \in 1..n |-> [mac |-> MacOf(1 + (i % 2)), rssi |-> -40 - i, name |-> LongName]]

Plain(dev, rssi) == <<[mac |-> MacOf(dev), rssi |-> rssi, name |-> <<>>]>>

MsgBig == DataMsg(0, Named(9))
MsgMid == DataMsg(1, Named(5))
MsgSmall == DataMsg(2, Plain(1, -50))
MsgEnd == EndMsg(3)

LocalMsgs ==
  { DataMsg(10, Plain(1, -70)),
    DataMsg(11, Plain(1, -90) \o Plain(2, -70) \o Plain(2, -50) \o Plain(3, -60) \o Plain(2, -90)),
    EndMsg(12) }

UMsgs == {MsgBig, MsgMid, MsgSmall, MsgEnd} \cup LocalMsgs

\* -- frames for the decoding analysis: intact, damaged, malformed --------------

\* b with bit k inverted
FlipBit(b, k) == IF (b \div (2 ^ k)) % 2 = 1 THEN b - 2 ^ k ELSE b + 2 ^ k

DecData == DataMsg(20, Plain(1, -70))
DecEnd == EndMsg(21)

\* The 1-based positions of the payload bytes: after the 16-byte header, before the CRC.
PayloadAt(bytes) == (MsgHeaderLen + 1)..(Len(bytes) - 2)

DecInput(kind, bytes) == [kind |-> kind, bytes |-> bytes, wire |-> cobs_encode(bytes)]

DecGood == {DecInput("good", m.bytes) : m \in {DecData, DecEnd}}

DecFlips ==
  { DecInput("flip", [DecData.bytes EXCEPT ![p] = FlipBit(@, k)]) :
      p \in PayloadAt(DecData.bytes), k \in 0..7 }

\* DATA messages with a valid CRC whose payload is not a sequence of COUNT records.
MalHead(seq) == begin_message(MT_DATA, IceOrigin, 1, seq)
MalFirst == RecordsBytes(Plain(1, -40))
\* the second record carries type 9 where the RSSI TLV (2,1) is expected
MalType ==
  FinishMessage(MalHead(30), MalFirst \o <<1, 6>> \o MacOf(2) \o <<9, 1, 200, 3, 1, 0>>, 2)
\* the second record's MAC TLV announces 6 bytes and 3 are left
MalPast == FinishMessage(MalHead(30), MalFirst \o <<1, 6, 170, 187, 204>>, 2)
\* COUNT is 3 and one record is present
MalCount == FinishMessage(MalHead(30), MalFirst, 3)

DecMalformed == {DecInput("malformed", b) : b \in {MalType, MalPast, MalCount}}

DecInputs == DecGood \cup DecFlips \cup DecMalformed

DecBodies == {SubSeq(in.bytes, 1, Len(in.bytes) - 2) : in \in DecInputs}

\* The CRC of the bodies the analyses feed, computed once.
CrcTable ==
  [b \in {SubSeq(m.bytes, 1, Len(m.bytes) - 2) : m \in UMsgs} \cup DecBodies |->
     crc16_ccitt(b, Len(b))]

Crc16(m, n) ==
  LET body == SubSeq(m, 1, n)
  IN IF body \in DOMAIN CrcTable THEN CrcTable[body] ELSE crc16_ccitt(m, n)

ForwardsFor(nd, src_room) ==
  nd.esn /\ ~nd.tail /\ (src_room = nd.room \/ src_room = ToU8(nd.room - 1))

processDecodedMessage(nd, m, src_room) ==
  LET n == Len(m)
  IN IF n < MinMsgLen THEN [nd EXCEPT !.proc = "short"]
     ELSE IF get_u16_le(m, n - 2) # Crc16(m, n - 2) THEN [nd EXCEPT !.proc = "crcfail"]
     ELSE LET typ    == B(m, 1)
              origin == Slice(m, 2, 6)
              batch  == get_u32_le(m, 8)
              seq    == get_u16_le(m, 12)
              sk     == SeenKey(origin, batch, seq, src_room)
              known  == InSeen(nd.seenCache, sk)
              n1 == IF known THEN [nd EXCEPT !.proc = "seen"]
                    ELSE IF typ = MT_END
                    THEN [nd EXCEPT !.seenCache = SeenPush(nd.seenCache, sk),
                                    !.printed = FlushLines(nd.bestRssi, src_room),
                                    !.bestRssi = FlushRest(nd.bestRssi, src_room),
                                    !.proc = "flush"]
                    ELSE [nd EXCEPT !.seenCache = SeenPush(nd.seenCache, sk),
                                    !.bestRssi = parseAndMaybeRecord(nd.bestRssi, m, n, src_room),
                                    !.proc = "parse"]
          IN IF ForwardsFor(nd, src_room)
             THEN [n1 EXCEPT !.sent = forward_upstream(nd, src_room, m, n, origin, batch, seq)]
             ELSE n1

\* -- ESP-NOW receive callback ------------------------------------------------

FragKey(f) == SeenKey(f.origin, f.batch, f.seq, f.src_room)

BufKey(rb) == SeenKey(rb.origin, rb.batch, rb.seq, rb.src_room)

UniAccepts(nd, f) ==
  /\ nd.esn
  /\ f.len >= SizeofEsnFrag
  /\ f.ok
  /\ SizeofEsnFrag + f.frag_len <= f.len
  /\ f.src_room = nd.room \/ f.src_room = ToU8(nd.room - 1)

RemoveAt(list, i) == SubSeq(list, 1, i - 1) \o SubSeq(list, i + 1, Len(list))

\* The lookup loop: buffers met before the matching one are erased when they
\* have been idle for more than 3000 ms. slot = 0 stands for "not found".
RECURSIVE ReasmLookup(_, _, _)
ReasmLookup(list, i, f) ==
  IF i > Len(list) THEN [list |-> list, slot |-> 0]
  ELSE IF BufKey(list[i]) = FragKey(f) THEN [list |-> list, slot |-> i]
  ELSE IF list[i].stale THEN ReasmLookup(RemoveAt(list, i), i, f)
  ELSE ReasmLookup(list, i + 1, f)

NewReasmBuf(f) ==
  [ src_room |-> f.src_room, origin |-> f.origin, batch |-> f.batch, seq |-> f.seq,
    total    |-> f.total,
    have     |-> [i \in 1..f.total |-> FALSE],
    frag_len |-> [i \in 1..f.total |-> 0],
    data     |-> Zeros(f.total * ESN_FRAG_DATA_MAX),
    stale    |-> FALSE ]

\* memcpy(&rb.data[off], h->data, h->frag_len)
WriteAt(data, off, bytes) ==
  [i \in 1..Len(data) |->
     IF off < i /\ i <= off + Len(bytes) THEN bytes[i - off] ELSE data[i]]

StoreFrag(rb, f) ==
  IF rb.have[f.index + 1] THEN rb
  ELSE [rb EXCEPT !.have[f.index + 1] = TRUE,
                  !.frag_len[f.index + 1] = f.frag_len,
                  !.data = WriteAt(rb.data, f.index * ESN_FRAG_DATA_MAX,
                                   SubSeq(f.data, 1, f.frag_len)),
                  !.stale = FALSE]

\* Completion as SMOKE v3 decides it: the last index has arrived.
LastIndexArrived(rb) == rb.have[rb.total]

Complete(rb) == \A i \in 1..rb.total : rb.have[i]

RECURSIVE Reassembled(_, _)
Reassembled(rb, i) ==
  IF i > rb.total THEN <<>>
  ELSE Slice(rb.data, (i - 1) * ESN_FRAG_DATA_MAX, rb.frag_len[i]) \o Reassembled(rb, i + 1)

UniRecvCb(nd, f) ==
  LET q == UniQuiet(nd)
  IN IF ~UniAccepts(nd, f) THEN q
     ELSE LET found == ReasmLookup(nd.reasmList, 1, f)
              list  == IF found.slot = 0 THEN Append(found.list, NewReasmBuf(f))
                       ELSE found.list
              slot  == IF found.slot = 0 THEN Len(list) ELSE found.slot
          IN IF f.index >= list[slot].total THEN [q EXCEPT !.reasmList = list]
             ELSE LET rb == StoreFrag(list[slot], f)
                  IN IF ~Complete(rb)
                     THEN [q EXCEPT !.reasmList = [list EXCEPT ![slot] = rb]]
                     ELSE LET msg  == Reassembled(rb, 1)
                              sk   == BufKey(rb)
                              rest == RemoveAt(list, slot)
                          IN IF InSeen(nd.seenCache, sk)
                             THEN [q EXCEPT !.reasmList = rest, !.reasm = <<msg>>,
                                            !.proc = "dupkey"]
                             ELSE [processDecodedMessage(
                                     [q EXCEPT !.seenCache = SeenPush(nd.seenCache, sk)],
                                     msg, rb.src_room)
                                   EXCEPT !.reasmList = rest, !.reasm = <<msg>>]

\* More than 3000 ms pass without a fragment: every buffer is now stale.
Elapse(nd) == [UniQuiet(nd) EXCEPT !.reasmList = [i \in 1..Len(nd.reasmList) |->
                                     [nd.reasmList[i] EXCEPT !.stale = TRUE]]]

\* -- UART: one frame (its non-zero bytes) and the 0x00 that ends it -----------

\* if (frameLen < FRAME_MAX) frameBuf[frameLen++] = b; else frameLen = 0;
RECURSIVE FrameBuffered(_)
FrameBuffered(frame) ==
  IF Len(frame) <= FRAME_MAX THEN frame
  ELSE FrameBuffered(SubSeq(frame, FRAME_MAX + 2, Len(frame)))

pollICE(nd, frame) ==
  LET buf == FrameBuffered(frame)
      dec == cobs_decode(buf, DECODE_MAX)
  IN IF Len(buf) > 0 /\ Len(dec) > 0
     THEN processDecodedMessage(UniQuiet(nd), dec, nd.room)
     ELSE UniQuiet(nd)

---------------------------------------------------------------------------
(* Unified v2.2: one node, the frames of its ICE and the fragments on the air *)

Range(f) == {f[i] : i \in DOMAIN f}

\* The fragments a relay of room src puts on the air for a message of its ICE.
FragsOf(src, msg) ==
  Range(forward_upstream(UniInit(src, FALSE, TRUE), src, msg.bytes, Len(msg.bytes),
                         IceOrigin, 1, msg.seq))

\* Fragments the callback drops: a foreign room, a wrong magic, a cut datagram.
UniRejects(room) ==
  LET f == CHOOSE x \in FragsOf(ToU8(room + 1), MsgSmall) : TRUE
      g == CHOOSE x \in FragsOf(room, MsgSmall) : TRUE
  IN {f, [g EXCEPT !.ok = FALSE], [g EXCEPT !.len = SizeofEsnFrag + g.frag_len - 1]}

UniRooms == {2}

FragsReasm ==
  [room \in UniRooms |->
     FragsOf(room - 1, MsgBig) \cup FragsOf(room, MsgMid) \cup FragsOf(room, MsgEnd)
       \cup UniRejects(room)]

FragsLocal == [room \in UniRooms |-> FragsOf(room - 1, MsgMid)]

\* First fragments of MaxKeys two-fragment messages, one key each.
MaxKeys == 4

KeyMsgs == {DataMsg(40 + k, Named(5)) : k \in 1..MaxKeys}

FragsKeys ==
  [room \in UniRooms |->
     {f \in UNION {FragsOf(room - 1, m) : m \in KeyMsgs} : f.index = 0}]

UniFrags(room) ==
  IF audit = "reasm" THEN FragsReasm[room]
  ELSE IF audit = "keys" THEN FragsKeys[room]
  ELSE FragsLocal[room]

\* A frame is what the UART delivers between two 0x00 bytes.
FrameOf(msg) == [msg |-> msg, wire |-> cobs_encode(msg.bytes)]

BadCrc(msg) == [msg EXCEPT !.bytes[Len(msg.bytes)] = (@ + 1) % 256]

FramesReasm ==
  { FrameOf(MsgEnd), FrameOf(BadCrc(MsgEnd)), [msg |-> MsgEnd, wire |-> <<5, 1>>] }

FramesLocal == {FrameOf(m) : m \in LocalMsgs}

UniFrames == IF audit = "reasm" THEN FramesReasm ELSE FramesLocal

\* -- history updates ----------------------------------------------------------

MsgOfBytes(m) == CHOOSE d \in UMsgs : d.bytes = m

BoundRssi(recs, dev) == {ToInt8(recs[i].rssi) : i \in {j \in DOMAIN recs : recs[j].mac = MacOf(dev)}}

\* What the node observed: the bound devices of a parsed message are added
\* under the message's room, a flush ends the window of that room.
UniObsAfter(nd, m, src_room) ==
  IF audit # "local" THEN obs
  ELSE IF nd.proc = "parse"
  THEN [k \in DOMAIN obs |->
          IF k[1] = src_room THEN obs[k] \cup BoundRssi(MsgOfBytes(m).recs, k[2]) ELSE obs[k]]
  ELSE IF nd.proc = "flush"
  THEN [k \in DOMAIN obs |-> IF k[1] = src_room THEN {} ELSE obs[k]]
  ELSE obs

UniFwdAfter(nd) ==
  IF audit # "local" \/ nd.sent = <<>> THEN fwdCount
  ELSE Bump(fwdCount, FragKey(nd.sent[1]))

BufKeys(nd) == {BufKey(nd.reasmList[i]) : i \in 1..Len(nd.reasmList)}

RunU22 ==
  /\ fw = "u22"
  /\ UNCHANGED <<fw, audit, smoke, agg, chain, air, base, merged, rxFor, rxIdx, rxTotal,
                 finalCount, flushes, winners>>

\* The fragment is one the callback stores or has stored, and with it every
\* index 0..total-1 of its key has arrived since the key's buffer was created.
LastMissing(f, before) ==
  /\ f.index < f.total
  /\ f.index \notin before
  /\ before \cup {f.index} = 0..(f.total - 1)

UniRecv(f) ==
  LET acc    == UniAccepts(uni, f)
      k      == FragKey(f)
      before == IF k \in DOMAIN got THEN got[k] ELSE {}
      last   == acc /\ LastMissing(f, before)
  IN /\ RunU22
     /\ uni' = UniRecvCb(uni, f)
     /\ lastRx' = IF audit = "reasm" /\ last
                  THEN [last |-> TRUE, key |-> k, index |-> f.index,
                        first |-> k \notin handled]
                  ELSE NoRx
     /\ got' = IF audit # "reasm" THEN got
               ELSE [x \in BufKeys(uni') |->
                       IF x = k /\ acc /\ f.index < f.total
                       THEN before \cup {f.index} ELSE got[x]]
     /\ handled' = IF audit = "reasm" /\ uni'.reasm # <<>> THEN handled \cup {k} ELSE handled
     /\ fwdCount' = UniFwdAfter(uni')
     /\ obs' = IF uni'.reasm # <<>> THEN UniObsAfter(uni', uni'.reasm[1], f.src_room) ELSE obs

UniFrame(fr) ==
  /\ RunU22
  /\ uni' = pollICE(uni, fr.wire)
  /\ lastRx' = NoRx
  /\ handled' = IF audit = "reasm" /\ uni'.proc \in {"parse", "flush", "seen"}
                THEN handled \cup {SeenKey(IceOrigin, 1, fr.msg.seq, uni.room)}
                ELSE handled
  /\ fwdCount' = UniFwdAfter(uni')
  /\ obs' = UniObsAfter(uni', fr.msg.bytes, uni.room)
  /\ UNCHANGED got

UniElapse ==
  /\ RunU22
  /\ \E i \in 1..Len(uni.reasmList) : ~uni.reasmList[i].stale
  /\ uni' = Elapse(uni)
  /\ lastRx' = NoRx
  /\ UNCHANGED <<obs, got, handled, fwdCount>>

NextU22 ==
  \/ \E f \in UniFrags(uni.room) : UniRecv(f)
  \/ \E fr \in UniFrames : UniFrame(fr)
  \/ UniElapse

InitU22(aud) ==
  /\ fw = "u22"
  /\ audit = aud
  /\ uni \in {UniInit(room, tail, TRUE) : room \in UniRooms, tail \in BOOLEAN}
  /\ smoke = 0 /\ agg = 0 /\ chain = 0 /\ air = 0
  /\ HistInit
  /\ obs = [k \in {uni.room - 1, uni.room} \X Dev |-> {}]

SpecU == InitU22("reasm") /\ [][NextU22]_vars

---------------------------------------------------------------------------
(* Text of the text-AGG firmware: Arduino String as a sequence of characters *)

DigitChars == <<"0", "1", "2", "3", "4", "5", "6", "7", "8", "9">>

IsDigit(c) == \E i \in 1..10 : DigitChars[i] = c

DigitVal(c) == (CHOOSE i \in 1..10 : DigitChars[i] = c) - 1

IsSpace(c) == c \in {" ", "\t", "\n", "\r"}

\* String(int): decimal, a leading '-' for negatives
RECURSIVE DecNat(_)
DecNat(n) == IF n < 10 THEN <<DigitChars[n + 1]>> ELSE Append(DecNat(n \div 10), DigitChars[(n % 10) + 1])

Dec(n) == IF n < 0 THEN <<"-">> \o DecNat(-n) ELSE DecNat(n)

\* s.indexOf(c, from): C index of the first c at or after from, or -1
IndexOf(s, c, from) ==
  LET hits == {i \in 1..Len(s) : i > from /\ s[i] = c}
  IN IF hits = {} THEN -1 ELSE (CHOOSE i \in hits : \A j \in hits : i <= j) - 1

\* s.substring(left, right)
Substring(s, left, right) ==
  LET lo == IF left > right THEN right ELSE left
      hi == IF left > right THEN left ELSE right
      r  == IF hi > Len(s) THEN Len(s) ELSE hi
  IN IF lo >= Len(s) THEN <<>> ELSE SubSeq(s, lo + 1, r)

RECURSIVE TrimLeft(_)
TrimLeft(s) == IF s # <<>> /\ IsSpace(Head(s)) THEN TrimLeft(Tail(s)) ELSE s

RECURSIVE TrimRight(_)
TrimRight(s) ==
  IF s # <<>> /\ IsSpace(s[Len(s)]) THEN TrimRight(SubSeq(s, 1, Len(s) - 1)) ELSE s

Trim(s) == TrimRight(TrimLeft(s))

RECURSIVE DigitsValue(_, _, _)
DigitsValue(s, i, acc) ==
  IF i <= Len(s) /\ IsDigit(s[i]) THEN DigitsValue(s, i + 1, acc * 10 + DigitVal(s[i])) ELSE acc

\* s.toInt(): atol - leading blanks, an optional sign, the leading digits
ToInt(s) ==
  LET t == TrimLeft(s)
  IN IF t = <<>> THEN 0
     ELSE IF t[1] = "-" THEN -DigitsValue(t, 2, 0)
     ELSE IF t[1] = "+" THEN DigitsValue(t, 2, 0)
     ELSE DigitsValue(t, 1, 0)

StartsWith(s, pre) == Len(s) >= Len(pre) /\ SubSeq(s, 1, Len(pre)) = pre

---------------------------------------------------------------------------
(* text-AGG firmware *)

MAX_TAG_ID == 1024
AggPrefix == <<"A", "G", "G", ":">>
UiPrefix == <<"U", "I", ":", " ">>
HelloPrefix == <<"H", "E", "L", "L", "O">>
LogPrefix == <<"L", "O", "G", ":">>
MapPrefix == <<"M", "A", "P">>
CfgPrefix == <<"C", "F", "G", ":">>

\* The tag ids the analyses use; every other cell of bestStr/bestRoom stays 0.
Tags == {1, 2, MAX_TAG_ID}

HexChars == <<"0", "1", "2", "3", "4", "5", "6", "7", "8", "9", "A", "B", "C", "D", "E", "F">>

Hex2(b) == <<HexChars[(b \div 16) + 1], HexChars[(b % 16) + 1]>>

\* sprintf "%02X:%02X:%02X:%02X:%02X:%02X"
macToStr(mac) ==
  Hex2(mac[1]) \o <<":">> \o Hex2(mac[2]) \o <<":">> \o Hex2(mac[3]) \o <<":">>
    \o Hex2(mac[4]) \o <<":">> \o Hex2(mac[5]) \o <<":">> \o Hex2(mac[6])

\* State after setup(): role, room and next hop come from the preferences.
AggInit(mac, room, tail, next) ==
  [ mac      |-> mac,                      \* WiFi.macAddress()
    roomNo   |-> room,
    isTail   |-> tail,
    nextMac  |-> next,
    bestStr  |-> [t \in Tags |-> 0],
    bestRoom |-> [t \in Tags |-> 0],
    to       |-> <<>>,                     \* sendNow by this call: destination
    sent     |-> <<>>,                     \*   and text
    ui       |-> <<>>,                     \* line printed to the UI by this call
    prefs    |-> [tail |-> tail, room |-> room, next |-> macToStr(next)] ]  \* NVS "smoke"

AggQuiet(nd) == [nd EXCEPT !.to = <<>>, !.sent = <<>>, !.ui = <<>>]

bcastAddr == <<255, 255, 255, 255, 255, 255>>

ZeroMac == <<0, 0, 0, 0, 0, 0>>

macIsZero(mac) == \A i \in 1..6 : mac[i] = 0

sendNow(nd, mac, text) == [nd EXCEPT !.to = mac, !.sent = text]

\* The scaling alone: no clamp of the input, none of the result.
rssiToStrengthUnclamped(rssi) == ToU8((200 * (rssi + 100) + 70) \div 140)

rssiToStrength(rssi) ==
  LET r1 == IF rssi > -30 THEN -30 ELSE rssi
      r2 == IF r1 < -100 THEN -100 ELSE r1
      v  == (200 * (r2 + 100) + 70) \div 140   \* (r2+100)*(100.0/70.0)+0.5, truncated
      v1 == IF v < 0 THEN 0 ELSE v
  IN ToU8(IF v1 > 100 THEN 100 ELSE v1)

\* parseTagLine: the tag and rssi of a scanner line, ok = FALSE when rejected
parseTagLine(line) ==
  LET no == [ok |-> FALSE, tag |-> 0, rssi |-> 0]
      a  == IndexOf(line, ",", 0)
      b  == IndexOf(line, ",", a + 1)
      sp == IndexOf(line, " ", 4)
  IN IF Len(line) < 5 THEN no
     ELSE IF line[1] = "T"
     THEN IF a < 0 \/ b < 0 THEN no
          ELSE LET tag == ToInt(Substring(line, a + 1, b))
               IN [ok |-> tag > 0, tag |-> tag, rssi |-> ToInt(Substring(line, b + 1, Len(line)))]
     ELSE IF StartsWith(line, <<"T", "A", "G", " ">>)
     THEN IF sp < 0 THEN no
          ELSE LET tag == ToInt(Substring(line, 4, sp))
               IN [ok |-> tag > 0, tag |-> tag, rssi |-> ToInt(Substring(line, sp + 1, Len(line)))]
     ELSE no

\* if (st >= bestStr[tag]) { bestStr[tag] = st; bestRoom[tag] = roomNo; }
AggWins(best, tag, st) == st >= best[tag]

\* A store that trusts the id it is given.
AggStoreAnyId(nd, tag, st, room) ==
  IF AggWins(nd.bestStr, tag, st)
  THEN [nd EXCEPT !.bestStr[tag] = st, !.bestRoom[tag] = room]
  ELSE nd

AggStore(nd, tag, st, room) ==
  IF tag >= 1 /\ tag <= MAX_TAG_ID /\ AggWins(nd.bestStr, tag, st)
  THEN [nd EXCEPT !.bestStr[tag] = st, !.bestRoom[tag] = room]
  ELSE nd

\* pumpICE: one trimmed, non-empty line of the scanner UART
pumpICE(nd, raw) ==
  LET s == Trim(raw)
      q == AggQuiet(nd)
      t == parseTagLine(s)
  IN IF s = <<>> THEN q
     ELSE IF t.ok THEN AggStore(q, t.tag, rssiToStrength(t.rssi), nd.roomNo)
     ELSE IF StartsWith(s, LogPrefix) /\ ~macIsZero(nd.nextMac) THEN sendNow(q, nd.nextMac, s)
     ELSE q

\* pumpUI: one line of the UI UART; CFG:/MAP lines are broadcast
pumpUI(nd, raw) ==
  LET s == Trim(raw)
      q == AggQuiet(nd)
  IN IF s # <<>> /\ (StartsWith(s, CfgPrefix) \/ StartsWith(s, MapPrefix))
     THEN sendNow(q, bcastAddr, s) ELSE q

\* loop(): the tail reads the UI UART, every other node the scanner UART
AggUart(nd, raw) == IF nd.isTail THEN pumpUI(nd, raw) ELSE pumpICE(nd, raw)

\* One "room.tag@str" token of an AGG line starting at C index p
AggToken(msg, p) ==
  LET c0  == IndexOf(msg, ",", p)
      c   == IF c0 < 0 THEN Len(msg) ELSE c0
      tok == Trim(Substring(msg, p, c))
      dot == IndexOf(tok, ".", 0)
      at  == IndexOf(tok, "@", 0)
  IN IF dot > 0 /\ at > dot
     THEN [ ok   |-> TRUE,
            room |-> ToInt(Substring(tok, 0, dot)),
            tag  |-> ToInt(Substring(tok, dot + 1, at)),
            str  |-> ToInt(Substring(tok, at + 1, Len(tok))),
            next |-> c + 1 ]
     ELSE [ok |-> FALSE, room |-> 0, tag |-> 0, str |-> 0, next |-> c + 1]

ClampStr(str) == IF str < 0 THEN 0 ELSE IF str > 100 THEN 100 ELSE str

\* onRecv, "AGG:" branch: integrate upstream strengths and remember their room
RECURSIVE AggMerge(_, _, _)
AggMerge(nd, msg, p) ==
  IF p >= Len(msg) THEN nd
  ELSE LET t == AggToken(msg, p)
       IN AggMerge(IF t.ok THEN AggStore(nd, t.tag, ClampStr(t.str), ToU8(t.room)) ELSE nd,
                   msg, t.next)

\* s.indexOf(pat): C index of the first occurrence of the text pat, or -1
IndexOfStr(s, pat) ==
  LET hits == {i \in 1..Len(s) : i + Len(pat) - 1 <= Len(s) /\ SubSeq(s, i, i + Len(pat) - 1) = pat}
  IN IF hits = {} THEN -1 ELSE (CHOOSE i \in hits : \A j \in hits : i <= j) - 1

HexLower == <<"a", "b", "c", "d", "e", "f">>

IsHex(c) == IsDigit(c) \/ (\E i \in 11..16 : HexChars[i] = c) \/ (\E i \in 1..6 : HexLower[i] = c)

HexVal(c) ==
  IF \E i \in 1..16 : HexChars[i] = c THEN (CHOOSE i \in 1..16 : HexChars[i] = c) - 1
  ELSE (CHOOSE i \in 1..6 : HexLower[i] = c) + 9

\* sscanf "%2x": blanks are skipped, then one or two hex digits are read.
\* at is the C index where the conversion starts.
RECURSIVE ScanHex2(_, _)
ScanHex2(s, at) ==
  IF at < Len(s) /\ IsSpace(s[at + 1]) THEN ScanHex2(s, at + 1)
  ELSE IF at >= Len(s) \/ ~IsHex(s[at + 1]) THEN [ok |-> FALSE, val |-> 0, next |-> at]
  ELSE IF at + 1 < Len(s) /\ IsHex(s[at + 2])
       THEN [ok |-> TRUE, val |-> 16 * HexVal(s[at + 1]) + HexVal(s[at + 2]), next |-> at + 2]
       ELSE [ok |-> TRUE, val |-> HexVal(s[at + 1]), next |-> at + 1]

\* sscanf "%2x:%2x:%2x:%2x:%2x:%2x": the fields converted before the first
\* mismatch.
RECURSIVE ScanMac(_, _, _)
ScanMac(s, at, b) ==
  LET f == ScanHex2(s, at)
  IN IF ~f.ok THEN b
     ELSE IF Len(b) = 5 THEN Append(b, f.val)
     ELSE IF f.next < Len(s) /\ s[f.next + 1] = ":" THEN ScanMac(s, f.next + 1, Append(b, f.val))
     ELSE Append(b, f.val)

\* strToMac: mac is written only when the text is 17 long and six fields scan
strToMac(s) ==
  LET b == ScanMac(s, 0, <<>>)
  IN IF Len(s) # 17 \/ Len(b) # 6 THEN [ok |-> FALSE, mac |-> ZeroMac]
     ELSE [ok |-> TRUE, mac |-> [i \in 1..6 |-> ToU8(b[i])]]

\* savePrefs: tail, room and the text of nextMac
savePrefs(nd) ==
  [nd EXCEPT !.prefs = [tail |-> nd.isTail, room |-> nd.roomNo, next |-> macToStr(nd.nextMac)]]

\* One key of a CFG message.
CfgKey(nd, k, v) ==
  IF k = <<"r", "o", "o", "m">>
  THEN IF ToInt(v) >= 0 /\ ToInt(v) <= 255 THEN [nd EXCEPT !.roomNo = ToU8(ToInt(v))] ELSE nd
  ELSE IF k = <<"t", "a", "i", "l">> THEN [nd EXCEPT !.isTail = (ToInt(v) # 0)]
  ELSE IF k = <<"n", "e", "x", "t">>
  THEN [nd EXCEPT !.nextMac = IF strToMac(v).ok THEN strToMac(v).mac ELSE ZeroMac]
  ELSE IF k = <<"c", "l", "e", "a", "r">>
  THEN [nd EXCEPT !.isTail = FALSE, !.roomNo = 0, !.nextMac = ZeroMac,
                  !.bestStr = [t \in DOMAIN nd.bestStr |-> 0],
                  !.bestRoom = [t \in DOMAIN nd.bestRoom |-> 0]]
  ELSE nd

\* while (p < msg.length()): the keys of the message, left to right
RECURSIVE CfgApply(_, _, _)
CfgApply(nd, msg, p) ==
  IF p >= Len(msg) THEN nd
  ELSE LET c0 == IndexOf(msg, ",", p)
           c  == IF c0 < 0 THEN Len(msg) ELSE c0
           kv == Trim(Substring(msg, p, c))
           eq == IndexOf(kv, "=", 0)
           k  == IF eq > 0 THEN Substring(kv, 0, eq) ELSE kv
           v  == IF eq > 0 THEN Substring(kv, eq + 1, Len(kv)) ELSE <<"1">>
       IN CfgApply(CfgKey(nd, k, v), msg, c + 1)

\* onRecv, the CFG: branch: a message that names another node is ignored,
\* any other is applied key by key and the preferences are saved.
onRecvCfg(nd, msg) ==
  LET macPos == IndexOfStr(msg, <<"m", "a", "c", "=">>)
      m0     == Substring(msg, macPos + 4, Len(msg))
      comma  == IndexOf(m0, ",", 0)
      m      == Trim(IF comma > 0 THEN Substring(m0, 0, comma) ELSE m0)
  IN IF macPos >= 0 /\ strToMac(m).ok /\ strToMac(m).mac # nd.mac THEN nd
     ELSE savePrefs(CfgApply(nd, msg, 4))

\* onRecv: CFG:, AGG:, HELLO, LOG: and MAP datagrams
onRecv(nd, msg) ==
  LET q == AggQuiet(nd)
  IN IF msg = <<>> THEN q
     ELSE IF StartsWith(msg, CfgPrefix) THEN onRecvCfg(q, msg)
     ELSE IF StartsWith(msg, AggPrefix) THEN AggMerge(q, msg, 4)
     ELSE IF StartsWith(msg, HelloPrefix) \/ StartsWith(msg, LogPrefix)
     THEN IF nd.isTail THEN [q EXCEPT !.ui = msg] ELSE q
     ELSE q

\* for (int i=1;i<=MAX_TAG_ID;i++): the cells of the table, in ascending order
TagSeq(nd) == SortedKeys(DOMAIN nd.bestStr)

\* uint8_t r = bestRoom[i] ? bestRoom[i] : roomNo;
AggRoomOf(nd, i) == IF nd.bestRoom[i] # 0 THEN nd.bestRoom[i] ELSE nd.roomNo

RECURSIVE AggLine(_, _, _, _)
AggLine(nd, k, out, first) ==
  IF k > Len(TagSeq(nd)) THEN out
  ELSE LET i == TagSeq(nd)[k]
           s == nd.bestStr[i]
       IN IF s = 0 THEN AggLine(nd, k + 1, out, first)
          ELSE AggLine(nd, k + 1,
                       (IF first THEN out ELSE Append(out, ","))
                         \o Dec(AggRoomOf(nd, i)) \o <<".">> \o Dec(i) \o <<"@">> \o Dec(s),
                       FALSE)

\* A decay that takes one unit per flush.
AggDecayByOne(nd) ==
  LET str == [t \in DOMAIN nd.bestStr |->
               IF nd.bestStr[t] > 1 THEN nd.bestStr[t] - 1 ELSE 0]
  IN [nd EXCEPT !.bestStr = str,
                !.bestRoom = [t \in DOMAIN str |-> IF str[t] = 0 THEN 0 ELSE nd.bestRoom[t]]]

\* gentle decay: bestStr - 2 floored at 0, the room is cleared with the signal
AggDecay(nd) ==
  LET str == [t \in DOMAIN nd.bestStr |->
               IF nd.bestStr[t] > 2 THEN nd.bestStr[t] - 2 ELSE 0]
  IN [nd EXCEPT !.bestStr = str,
                !.bestRoom = [t \in DOMAIN str |-> IF str[t] = 0 THEN 0 ELSE nd.bestRoom[t]]]

\* A flush that sends the AGG line whatever the role.
forwardAggAlways(nd) ==
  LET out == AggLine(nd, 1, AggPrefix, TRUE)
      q   == AggQuiet(nd)
  IN AggDecay(IF ~macIsZero(nd.nextMac) THEN sendNow(q, nd.nextMac, out) ELSE q)

forwardAggOrPrint(nd) ==
  LET out == AggLine(nd, 1, AggPrefix, TRUE)
      q   == AggQuiet(nd)
      n1  == IF nd.isTail
             THEN IF Len(out) > 4
                  THEN [q EXCEPT !.ui = UiPrefix \o Substring(out, 4, Len(out))] ELSE q
             ELSE IF ~macIsZero(nd.nextMac) THEN sendNow(q, nd.nextMac, out) ELSE q
  IN AggDecay(n1)

\* "HELLO,mac=%s,room=%u,tail=%u,next=%s" to the broadcast address
sendHello(nd) ==
  sendNow(AggQuiet(nd), bcastAddr,
          HelloPrefix \o <<",", "m", "a", "c", "=">> \o macToStr(nd.mac)
            \o <<",", "r", "o", "o", "m", "=">> \o Dec(nd.roomNo)
            \o <<",", "t", "a", "i", "l", "=">> \o Dec(IF nd.isTail THEN 1 ELSE 0)
            \o <<",", "n", "e", "x", "t", "=">> \o macToStr(nd.nextMac))

---------------------------------------------------------------------------
(* text-AGG: one node, its UART lines, the datagrams delivered, its timers *)

MaxFlush == 2

TailMac == MacOf(2)

\* A tail in room 2, a relay in room 1 and a relay that was never given a room.
AggNodes ==
  { AggInit(TailMac, 2, TRUE, ZeroMac),
    AggInit(MacOf(1), 1, FALSE, TailMac),
    AggInit(MacOf(1), 0, FALSE, TailMac) }

\* Lines of the UART: scanner observations, a tag id outside the table, the
\* "TAG id rssi" form, a log line, an alias map.
UartLines ==
  { <<"T", ",", "1", ",", "-", "6", "5">>,
    <<"T", ",", "1", ",", "-", "3", "0">>,
    <<"T", ",", "2", ",", "-", "4", "4", "\r">>,
    <<"T", ",", "1", "0", "2", "5", ",", "-", "3", "0">>,
    <<"T", "A", "G", " ", "1", " ", "-", "3", "0">>,
    <<"L", "O", "G", ":", "x">>,
    <<"M", "A", "P", " ", "1", "=", "a">> }

\* Datagrams: AGG lines of upstream nodes (rooms 0, 1 and 3), a beacon, a log.
AggDatagrams ==
  { <<"A", "G", "G", ":", "0", ".", "1", "@", "5", "0">>,
    <<"A", "G", "G", ":", "1", ".", "1", "@", "1", "0", "0", ",", " ", "3", ".", "2", "@", "5", "0">>,
    <<"A", "G", "G", ":", "1", ".", "1", "0", "2", "5", "@", "7", "0", ",", "x">>,
    AggPrefix,
    HelloPrefix,
    <<"L", "O", "G", ":", "y">> }

InRange(tag) == tag >= 1 /\ tag <= MAX_TAG_ID

\* The observation a UART line makes on this node: {<<tag, strength>>} or {}
AggObserved(nd, raw) ==
  LET s == Trim(raw)
      t == parseTagLine(s)
  IN IF ~nd.isTail /\ s # <<>> /\ t.ok /\ InRange(t.tag)
     THEN {<<t.tag, rssiToStrength(t.rssi)>>} ELSE {}

\* The records of an AGG line: {<<room, tag, str>>}
RECURSIVE AggRecords(_, _)
AggRecords(msg, p) ==
  IF p >= Len(msg) THEN {}
  ELSE LET t == AggToken(msg, p)
       IN (IF t.ok /\ InRange(t.tag) THEN {<<t.room, t.tag, t.str>>} ELSE {})
            \cup AggRecords(msg, t.next)

AggReceived(msg) == IF StartsWith(msg, AggPrefix) THEN AggRecords(msg, 4) ELSE {}

DecayOf(s) == IF s > 2 THEN s - 2 ELSE 0

RunAgg ==
  /\ fw = "agg"
  /\ UNCHANGED <<fw, audit, smoke, uni, chain, air, rxFor, rxIdx, rxTotal, finalCount,
                 fwdCount, got, lastRx, handled>>

AggUartLine(raw) ==
  LET seen == AggObserved(agg, raw)
  IN /\ RunAgg
     /\ agg' = AggUart(agg, raw)
     /\ obs' = [t \in Tags |-> obs[t] \cup {o[2] : o \in {x \in seen : x[1] = t}}]
     /\ merged' = [t \in Tags |->
                     Strongest(merged[t]
                       \cup {<<o[2], agg.roomNo>> : o \in {x \in seen : x[1] = t}})]
     /\ UNCHANGED <<base, flushes, winners>>

AggRecv(msg) ==
  LET recs == AggReceived(msg)
  IN /\ RunAgg
     /\ agg' = onRecv(agg, msg)
     /\ base' = [t \in Tags |->
                   base[t] \cup {<<"radio", ClampStr(r[3])>> : r \in {x \in recs : x[2] = t}}]
     /\ merged' = [t \in Tags |->
                     Strongest(merged[t]
                       \cup {<<ClampStr(r[3]), r[1]>> : r \in {x \in recs : x[2] = t}})]
     /\ UNCHANGED <<obs, flushes, winners>>

AggFlush ==
  /\ RunAgg
  /\ flushes < MaxFlush
  /\ agg' = forwardAggOrPrint(agg)
  /\ flushes' = flushes + 1
  /\ winners' = [t \in Tags |-> {p[2] : p \in {x \in merged[t] : x[1] > 0}}]
  /\ obs' = [t \in Tags |-> {}]
  /\ merged' = [t \in Tags |->
                  {<<DecayOf(p[1]), p[2]>> : p \in {x \in merged[t] : DecayOf(x[1]) > 0}}]
  /\ base' = [t \in Tags |->
                {<<"left", DecayOf(p[1])>> : p \in {x \in merged[t] : DecayOf(x[1]) > 0}}]

AggHello ==
  /\ RunAgg
  /\ agg' = sendHello(agg)
  /\ UNCHANGED hist

NextAgg ==
  \/ \E raw \in UartLines : AggUartLine(raw)
  \/ \E msg \in AggDatagrams : AggRecv(msg)
  \/ AggFlush
  \/ AggHello

InitAgg(aud) ==
  /\ fw = "agg"
  /\ audit = aud
  /\ agg \in AggNodes
  /\ smoke = 0 /\ uni = 0 /\ chain = 0 /\ air = 0
  /\ obs = [t \in Tags |-> {}]
  /\ base = [t \in Tags |-> {}]
  /\ merged = [t \in Tags |-> {}]
  /\ winners = [t \in Tags |-> {}]
  /\ flushes = 0
  /\ rxFor = EmptyMap /\ rxIdx = {} /\ rxTotal = 0
  /\ finalCount = EmptyMap /\ fwdCount = EmptyMap
  /\ got = EmptyMap /\ lastRx = NoRx /\ handled = {}

SpecAgg == InitAgg("agg") /\ [][NextAgg]_vars

---------------------------------------------------------------------------
(* SMOKE v3: properties of the receive path *)

\* C2: at every node and after any sequence of accepted fragments, every device
\* that was merged (or seeded by room 1's flush) since chainBest was last
\* cleared is in chainBest with the maximum rssi of those entries and with the
\* room of one of the entries that carried that maximum; no other device is
\* in chainBest.
MergeKeepsStrongest ==
  fw = "v3" /\ audit = "merge" =>
    \A dev \in Dev :
      IF merged[dev] = {}
      THEN dev \notin DOMAIN smoke.chainBest
      ELSE /\ dev \in DOMAIN smoke.chainBest
           /\ <<smoke.chainBest[dev].rssi, smoke.chainBest[dev].room>> \in merged[dev]

\* Entries of two different rooms carried the maximum for device 1 (the tie
\* case of the merge) while device 2 was merged too.
MergeTieReached ==
  /\ fw = "v3" /\ audit = "merge"
  /\ 1 \in DOMAIN smoke.chainBest
  /\ smoke.chainBest[1].rssi = -50
  /\ Cardinality(merged[1]) = 2
  /\ 2 \in DOMAIN smoke.chainBest /\ smoke.chainBest[2].rssi = -70

\* C4: whatever a node forwards or prints for batch B holds only devices it
\* received (or, at room 1, seeded) for batch B.
BatchIsolation ==
  fw = "v3" /\ audit = "batch" =>
    /\ \A i \in 1..Len(smoke.sent) :
         DevsOf(smoke.sent[i].ents, smoke.sent[i].count) \subseteq rxFor[smoke.sent[i].batch]
    /\ smoke.final.printed =>
         \A i \in 1..Len(smoke.final.lines) :
           smoke.final.lines[i][2] \in rxFor[smoke.final.batch]

\* C6: the tail prints the FINAL snapshot at most once per batch id.
FinalOncePerBatch ==
  fw = "v3" /\ audit = "frag" =>
    \A b \in DOMAIN finalCount : finalCount[b] <= 1

\* C8: when the tail prints the FINAL snapshot of a batch, a fragment of every
\* index 0..total-1 of that batch has been accepted.
FinalOnlyWhenComplete ==
  fw = "v3" /\ audit = "frag" /\ smoke.final.printed =>
    \A i \in 0..(rxTotal - 1) : <<smoke.final.batch, i>> \in rxIdx

---------------------------------------------------------------------------
(* Unified v2.2: properties of reassembly and duplicate suppression *)

RECURSIVE FeedInOrder(_, _, _)
FeedInOrder(nd, fs, i) ==
  IF i > Len(fs) THEN nd ELSE FeedInOrder(UniRecvCb(nd, fs[i]), fs, i + 1)

\* What a fresh node reassembles when the fragments of msg, sent by a relay of
\* room src, arrive once each in index order.
InOrderBytes(room, src, msg) ==
  FeedInOrder(UniInit(room, TRUE, TRUE),
              forward_upstream(UniInit(src, FALSE, TRUE), src, msg.bytes, Len(msg.bytes),
                               IceOrigin, 1, msg.seq), 1).reasm

InOrderTable ==
  [room \in UniRooms |->
     [k \in {SeenKey(IceOrigin, 1, p[2].seq, p[1]) :
               p \in {<<room - 1, MsgBig>>, <<room, MsgMid>>, <<room, MsgEnd>>}} |->
        InOrderBytes(room, k[4],
                     CHOOSE m \in {MsgBig, MsgMid, MsgEnd} : m.seq = k[3])]]

\* C9: the callback completes a message exactly in the step that delivers the
\* last missing index of its key (indices counted since the key's buffer was
\* created, duplicates and other keys' fragments in between), never while an
\* index is missing, and the bytes are those of in-order arrival.
ReassemblyExact ==
  fw = "u22" /\ audit = "reasm" =>
    /\ (uni.reasm # <<>>) <=> lastRx.last
    /\ uni.reasm # <<>> => uni.reasm = InOrderTable[uni.room][lastRx.key]
    /\ \A i \in 1..Len(uni.reasmList) :
         got[BufKey(uni.reasmList[i])] # 0..(uni.reasmList[i].total - 1)

\* The three-fragment message is completed by its index 0, which arrives last,
\* while a buffer of another key is still open.
ReassembledOutOfOrder ==
  /\ fw = "u22" /\ audit = "reasm"
  /\ uni.reasm = <<MsgBig.bytes>>
  /\ lastRx.last /\ lastRx.index = 0
  /\ Len(uni.reasmList) = 1

CrcValid(m) ==
  Len(m) >= MinMsgLen /\ get_u16_le(m, Len(m) - 2) = Crc16(m, Len(m) - 2)

\* C5: a complete CRC-valid message reassembled from ESP-NOW fragments whose
\* key has not been completed or processed before is processed: a DATA message
\* is parsed into bestRssi, an END message flushes its room.
FirstDeliveryProcessed ==
  fw = "u22" /\ audit = "reasm" /\ uni.reasm # <<>> /\ lastRx.first
    /\ CrcValid(uni.reasm[1])
    => uni.proc \in {"parse", "flush"}

---------------------------------------------------------------------------
(* Tail emissions *)

\* C10: every record of a tail emission carries the room of a node whose
\* observation is the strongest one merged for that entity - never the tail's
\* own room in its place (SMOKE v3 FINAL print; text-AGG UI line).
EmissionCarriesWinnerRoom ==
  /\ fw = "v3" /\ audit = "merge" /\ smoke.final.printed
       => \A i \in 1..Len(smoke.final.lines) :
            LET l == smoke.final.lines[i] IN <<l[3], l[1]>> \in merged[l[2]]
  /\ fw = "agg" /\ agg.isTail /\ StartsWith(agg.ui, UiPrefix)
       => \A r \in AggRecords(agg.ui, 4) : r[1] \in winners[r[2]]

---------------------------------------------------------------------------
(* The local tables of the three firmwares under their local inputs *)

InitLocal == InitV3("local") \/ InitU22("local") \/ InitAgg("local")

NextLocal ==
  \/ fw = "v3" /\ \E l \in Lines : V3Line(l[1], l[2])
  \/ V3EndLine
  \/ V3Timeout
  \/ V3JunkLine
  \/ fw = "v3" /\ \E d \in Datagrams(smoke.room) : V3Recv(d)
  \/ fw = "u22" /\ \E f \in UniFrags(uni.room) : UniRecv(f)
  \/ fw = "u22" /\ \E fr \in UniFrames : UniFrame(fr)
  \/ UniElapse
  \/ \E raw \in UartLines : AggUartLine(raw)
  \/ \E msg \in AggDatagrams : AggRecv(msg)
  \/ AggFlush
  \/ AggHello

SpecLocal == InitLocal /\ [][NextLocal]_vars

\* The cell of a map-backed table: the value stored for k, or nothing
CellOf(table, k) == IF k \in DOMAIN table THEN {table[k]} ELSE {}

MaxOf(S) == IF S = {} THEN {} ELSE {SetMax(S)}

\* C1: within one aggregation window the local table holds, for every id, the
\* maximum of the strengths observed locally for it in the window and of what
\* the table held for it besides: nothing in SMOKE v3 localBest and Unified
\* v2.2 bestRssi, whose windows start empty; in text-AGG bestStr the decayed
\* strength the last flush left and the strengths merged from AGG lines.
LocalTableHoldsMax ==
  audit = "local" =>
    /\ fw = "v3" => \A dev \in Dev : CellOf(smoke.localBest, dev) = MaxOf(obs[dev])
    /\ fw = "u22" => \A k \in DOMAIN obs : CellOf(uni.bestRssi, k) = MaxOf(obs[k])
    /\ fw = "agg" => \A t \in Tags :
         agg.bestStr[t] = SetMax(obs[t] \cup {b[2] : b \in base[t]} \cup {0})

\* C1 as stated: after local observations of an id (and nothing merged for it
\* from the radio) the table holds the maximum of the strengths observed in the
\* window.
LocalTableHoldsMaxObserved ==
  audit = "local" =>
    /\ fw = "v3" => \A dev \in Dev : CellOf(smoke.localBest, dev) = MaxOf(obs[dev])
    /\ fw = "u22" => \A k \in DOMAIN obs : CellOf(uni.bestRssi, k) = MaxOf(obs[k])
    /\ fw = "agg" => \A t \in Tags :
         obs[t] # {} /\ (\A b \in base[t] : b[1] # "radio") => agg.bestStr[t] = SetMax(obs[t])

\* A text-AGG relay whose window began with the residue 48 for tag 1 has then
\* observed the tag at strengths 50 and 100.
LocalMaxOverResidue ==
  /\ fw = "agg" /\ audit = "local"
  /\ obs[1] = {50, 100}
  /\ base[1] = {<<"left", 48>>}
  /\ agg.bestStr[1] = 100

---------------------------------------------------------------------------
(* Forwarding *)

\* C7: a node fires the forward action at most once per message key, however
\* many fragments of the key are delivered and however often they are
\* duplicated (SMOKE v3 key: src_room and batch; Unified v2.2 key: origin,
\* batch, seq and src_room, on the UART and the ESP-NOW path).
ForwardOncePerKey == \A k \in DOMAIN fwdCount : fwdCount[k] <= 1

---------------------------------------------------------------------------
(* A chain of two nodes: the relay of room 1 and the tail of room 2 *)

ChainRooms == {1, 2}

Other(r) == 3 - r

\* Lines fed to the UART of room r: zone 1 hears the entities weakly, the tail
\* strongly (SMOKE v3 "NAME@RSSI" lines, text-AGG scanner lines and an alias map).
ChainLines(r) == Dev \X {IF r = 1 THEN -70 ELSE -50}

ChainUart(r) ==
  IF r = 1 THEN { <<"T", ",", "1", ",", "-", "6", "5">>, <<"L", "O", "G", ":", "x">> }
  ELSE { <<"T", ",", "1", ",", "-", "3", "0">>, <<"T", ",", "2", ",", "-", "4", "4">>, <<"M", "A", "P", " ", "1", "=", "a">> }

\* What a scanner line says, whatever the node does with it
LineSays(raw) ==
  LET t == parseTagLine(Trim(raw))
  IN IF Trim(raw) # <<>> /\ t.ok /\ InRange(t.tag)
     THEN {<<t.tag, rssiToStrength(t.rssi)>>} ELSE {}

ObsAdd(r, id, S) == [obs EXCEPT ![<<r, id>>] = @ \cup S]

\* The window of room r closes: its observations become those of the closed window
ObsClosed(r) == [k \in DOMAIN obs |-> IF k[1] = r THEN {} ELSE obs[k]]

BaseClosed(r) == [k \in DOMAIN base |-> IF k[1] = r THEN obs[k] ELSE base[k]]

RunChain(f) ==
  /\ fw = f
  /\ UNCHANGED <<fw, audit, smoke, uni, agg, merged, rxFor, rxIdx, rxTotal, finalCount,
                 fwdCount, got, lastRx, handled, winners>>

\* -- SMOKE v3 ---------------------------------------------------------------

ChainV3Line(r, dev, rssi) ==
  /\ RunChain("v3chain")
  /\ chain' = [chain EXCEPT ![r] = RecordLine(@, dev, rssi)]
  /\ obs' = IF dev # 0 THEN ObsAdd(r, dev, {rssi}) ELSE obs
  /\ UNCHANGED <<air, base, flushes>>

ChainV3End(r) ==
  /\ RunChain("v3chain")
  /\ r = 1 => chain[r].batch <= MaxBatch
  /\ chain' = [chain EXCEPT ![r] = EndOfScan(@)]
  /\ air' = IF chain'[r].sent # <<>> THEN [air EXCEPT ![r] = chain'[r].sent] ELSE air
  /\ obs' = ObsClosed(r)
  /\ base' = BaseClosed(r)
  /\ UNCHANGED flushes

ChainV3Timeout(r) == fw = "v3chain" /\ TimeoutFlushes(chain[r]) /\ ChainV3End(r)

\* The radio delivers one of the fragments the other node sent last.
ChainV3Deliver(r, i) ==
  /\ RunChain("v3chain")
  /\ i <= Len(air[Other(r)])
  /\ chain' = [chain EXCEPT ![r] = RecvCb(@, air[Other(r)][i])]
  /\ air' = IF chain'[r].sent # <<>> THEN [air EXCEPT ![r] = chain'[r].sent] ELSE air
  /\ UNCHANGED <<obs, base, flushes>>

\* -- text-AGG ---------------------------------------------------------------

AirAfter(nd, r) ==
  IF nd.sent # <<>> THEN [air EXCEPT ![r] = <<[to |-> nd.to, text |-> nd.sent]>>] ELSE air

ChainAggLine(r, raw) ==
  /\ RunChain("aggchain")
  /\ chain' = [chain EXCEPT ![r] = AggUart(@, raw)]
  /\ air' = AirAfter(chain'[r], r)
  /\ obs' = [k \in DOMAIN obs |->
               IF k[1] = r THEN obs[k] \cup {o[2] : o \in {x \in LineSays(raw) : x[1] = k[2]}}
               ELSE obs[k]]
  /\ UNCHANGED <<base, flushes>>

ChainAggFlush(r) ==
  /\ RunChain("aggchain")
  /\ flushes < MaxFlush
  /\ flushes' = flushes + 1
  /\ chain' = [chain EXCEPT ![r] = forwardAggOrPrint(@)]
  /\ air' = AirAfter(chain'[r], r)
  /\ obs' = ObsClosed(r)
  /\ base' = BaseClosed(r)

ChainAggHello(r) ==
  /\ RunChain("aggchain")
  /\ chain' = [chain EXCEPT ![r] = sendHello(@)]
  /\ air' = AirAfter(chain'[r], r)
  /\ UNCHANGED <<obs, base, flushes>>

\* The radio delivers the datagram the other node sent last, if addressed here.
ChainAggDeliver(r) ==
  /\ RunChain("aggchain")
  /\ air[Other(r)] # <<>>
  /\ air[Other(r)][1].to \in {bcastAddr, chain[r].mac}
  /\ chain' = [chain EXCEPT ![r] = onRecv(@, air[Other(r)][1].text)]
  /\ air' = AirAfter(chain'[r], r)
  /\ UNCHANGED <<obs, base, flushes>>

NextChain ==
  \/ \E r \in ChainRooms : \E l \in ChainLines(r) : ChainV3Line(r, l[1], l[2])
  \/ \E r \in ChainRooms : ChainV3End(r)
  \/ \E r \in ChainRooms : ChainV3Timeout(r)
  \/ \E r \in ChainRooms, i \in 1..MaxTotal : ChainV3Deliver(r, i)
  \/ \E r \in ChainRooms : \E raw \in ChainUart(r) : ChainAggLine(r, raw)
  \/ \E r \in ChainRooms : ChainAggFlush(r)
  \/ \E r \in ChainRooms : ChainAggHello(r)
  \/ \E r \in ChainRooms : ChainAggDeliver(r)

InitChain ==
  /\ \/ /\ fw = "v3chain"
        /\ chain = [r \in ChainRooms |-> SmokeInit(r, r = 2)]
        /\ obs = [k \in ChainRooms \X Dev |-> {}]
        /\ base = [k \in ChainRooms \X Dev |-> {}]
     \/ /\ fw = "aggchain"
        /\ chain = [r \in ChainRooms |->
                      AggInit(MacOf(r), r, r = 2, IF r = 2 THEN ZeroMac ELSE MacOf(2))]
        /\ obs = [k \in ChainRooms \X Tags |-> {}]
        /\ base = [k \in ChainRooms \X Tags |-> {}]
  /\ audit = "chain"
  /\ air = [r \in ChainRooms |-> <<>>]
  /\ smoke = 0 /\ uni = 0 /\ agg = 0
  /\ merged = EmptyMap /\ winners = EmptyMap /\ flushes = 0
  /\ rxFor = EmptyMap /\ rxIdx = {} /\ rxTotal = 0
  /\ finalCount = EmptyMap /\ fwdCount = EmptyMap
  /\ got = EmptyMap /\ lastRx = NoRx /\ handled = {}

SpecChain == InitChain /\ [][NextChain]_vars

\* The records of the tail's emission for entity e: <<room, id, strength>>
TailRecords(e) ==
  IF fw = "v3chain"
  THEN {chain[2].final.lines[i] : i \in {j \in 1..Len(chain[2].final.lines) :
                                            chain[2].final.lines[j][2] = e}}
  ELSE {r \in AggRecords(chain[2].ui, 4) : r[2] = e}

TailEmits ==
  IF fw = "v3chain" THEN chain[2].final.printed
  ELSE fw = "aggchain" /\ StartsWith(chain[2].ui, UiPrefix)

\* What the tail observed in the window the emission reports
TailSaw(e) == IF fw = "v3chain" THEN obs[<<2, e>>] ELSE base[<<2, e>>]

\* C3: when the tail emits after merging what zone 1 forwarded, every entity
\* the tail itself observed more strongly than zone 1 did (or that zone 1 did
\* not observe) is reported exactly once, tagged zone 2 with the tail's
\* strongest strength (SMOKE v3 FINAL snapshot; text-AGG UI line).
TailReportsOwnObservations ==
  audit = "chain" /\ TailEmits /\ (\E k \in DOMAIN base : k[1] = 1 /\ base[k] # {})
    => \A k \in DOMAIN obs :
         k[1] = 2 /\ TailSaw(k[2]) # {}
              /\ (\A a \in base[<<1, k[2]>>] : a < SetMax(TailSaw(k[2])))
           => TailRecords(k[2]) = {<<2, k[2], SetMax(TailSaw(k[2]))>>}

---------------------------------------------------------------------------
(* Ties *)

\* C11: a step that leaves the strength stored for an entity unchanged - no
\* stronger observation came in, only weaker or equal ones - leaves the zone
\* stored with it unchanged: ties keep the zone recorded first (SMOKE v3
\* chainBest within a batch; text-AGG bestStr/bestRoom between two flushes).
TiesKeepZone ==
  [][ /\ fw = "v3" /\ smoke'.batch = smoke.batch
           => \A dev \in DOMAIN smoke.chainBest :
                dev \in DOMAIN smoke'.chainBest
                  /\ smoke'.chainBest[dev].rssi = smoke.chainBest[dev].rssi
                => smoke'.chainBest[dev].room = smoke.chainBest[dev].room
      /\ fw = "agg"
           => \A t \in Tags :
                agg.bestStr[t] > 0 /\ agg'.bestStr[t] = agg.bestStr[t]
                => agg'.bestRoom[t] = agg.bestRoom[t] ]_vars

---------------------------------------------------------------------------
(* Unified v0: the tail-only SMOKE that reads its ICE over the UART *)

FRAME_MAX_V0 == 1600
DECODE_MAX_V0 == 1600

V0Init(room, tail) ==
  [ room          |-> room,
    tail          |-> tail,
    bestRssi      |-> EmptyMap,     \* devNum -> strongest rssi
    lastSeenBatch |-> 0,
    printed       |-> {},           \* "room.dev@rssi" lines printed by this call
    proc          |-> "none" ]      \* what processDecodedMessage did in this call

V0Quiet(nd) == [nd EXCEPT !.printed = {}, !.proc = "none"]

\* endOfScanFlush: every entry is printed under g_room, then the table is cleared
endOfScanFlush_v0(nd) ==
  [nd EXCEPT !.printed = {<<nd.room, dev, nd.bestRssi[dev]>> : dev \in DOMAIN nd.bestRssi},
             !.bestRssi = EmptyMap]

\* The DATA loop: each record is applied as soon as it is read.
RECURSIVE RecordAll_v0(_, _, _)
RecordAll_v0(best, recs, i) ==
  IF i > Len(recs) THEN best
  ELSE RecordAll_v0(IF recs[i][1] # NoDev /\ BestWins(best, recs[i][1], recs[i][2])
                      THEN MapPut(best, recs[i][1], recs[i][2]) ELSE best,
                    recs, i + 1)

processDecodedMessage_v0(nd, m) ==
  LET n == Len(m)
  IN IF n < MinMsgLen THEN [nd EXCEPT !.proc = "short"]
     ELSE IF get_u16_le(m, n - 2) # Crc16(m, n - 2) THEN [nd EXCEPT !.proc = "crcfail"]
     ELSE IF B(m, 1) = MT_END
     THEN [endOfScanFlush_v0(nd) EXCEPT !.lastSeenBatch = get_u32_le(m, 8), !.proc = "flush"]
     ELSE [nd EXCEPT !.bestRssi = RecordAll_v0(nd.bestRssi, ParsedRecords(m, n), 1),
                     !.proc = "parse"]

\* One frame of the UART and the 0x00 that ends it.
pollICE_v0(nd, frame) ==
  LET buf == IF Len(frame) <= FRAME_MAX_V0 THEN frame
             ELSE SubSeq(frame, FRAME_MAX_V0 + 2, Len(frame))
      dec == cobs_decode(buf, DECODE_MAX_V0)
  IN IF Len(buf) > 0 /\ Len(dec) > 0
     THEN processDecodedMessage_v0(V0Quiet(nd), dec)
     ELSE V0Quiet(nd)

---------------------------------------------------------------------------
(* Decoding: frames of the ICE, damaged and malformed ones, at a v0 or v2.2 node *)

RunDec(f) ==
  /\ fw = f
  /\ UNCHANGED <<fw, audit, smoke, agg, chain, air, obs, base, merged, rxFor, rxIdx, rxTotal,
                 finalCount, fwdCount, got, handled, flushes, winners>>

\* v0: the frame reaches processDecodedMessage through pollICE
DecV0Frame(in) ==
  /\ RunDec("u0")
  /\ uni' = pollICE_v0(uni, in.wire)
  /\ lastRx' = [kind |-> in.kind, before |-> uni.bestRssi]

\* v2.2: the same, with src_room the node's own room
DecU22Frame(in) ==
  /\ RunDec("u22")
  /\ uni' = pollICE(uni, in.wire)
  /\ lastRx' = [kind |-> in.kind, before |-> uni.bestRssi]

NextDec ==
  \/ \E in \in DecInputs : DecV0Frame(in)
  \/ \E in \in DecInputs : DecU22Frame(in)

InitDec ==
  /\ \/ fw = "u0" /\ uni \in {V0Init(2, tail) : tail \in BOOLEAN}
     \/ fw = "u22" /\ uni \in {UniInit(2, tail, TRUE) : tail \in BOOLEAN}
  /\ audit = "decode"
  /\ smoke = 0 /\ agg = 0 /\ chain = 0 /\ air = 0
  /\ obs = 0 /\ base = 0 /\ merged = 0 /\ rxFor = 0 /\ rxIdx = 0 /\ rxTotal = 0
  /\ finalCount = 0 /\ fwdCount = 0 /\ got = 0 /\ handled = 0 /\ flushes = 0 /\ winners = 0
  /\ lastRx = [kind |-> "none", before |-> EmptyMap]

SpecDec == InitDec /\ [][NextDec]_vars

MalformedRejected == lastRx.kind = "malformed" => uni.bestRssi = lastRx.before

---------------------------------------------------------------------------
(* Sending: what the three send sites hand to esp_now_send, by size *)

\* The sizes of the entity lists and of the decoded messages that are sent.
ListSizes == (1..60) \cup {99, 100, 101, 12749, 12750, 12751, 12800, 65535}
MapSizes == {0, 1, 49, 50, 51, 100, 101}
MsgSizes == {18, 199, 200, 201, 400, 401, 2000, 51000, 51001}

\* An entity list of n entries, one per device number.
VecOf(n) == [i \in 1..n |-> [dev |-> i - 1, rssi |-> -50, room |-> 1]]

\* chainBest holding the same n entries
ChainOf(n) == [dev \in 0..(n - 1) |-> [rssi |-> -50, room |-> 1]]

Sending(site, n, room, sent) == [site |-> site, n |-> n, room |-> room, sent |-> sent]

\* One send per behaviour: the sites are applied to a node that has sent nothing.
RunSend ==
  /\ fw = "send"
  /\ air.site = "none"
  /\ UNCHANGED <<fw, audit, smoke, uni, agg, chain, hist>>

\* SMOKE v3 room 1: flushAndSendIfNeeded hands its list to esn_send_entries
SendEntries(n, batch) ==
  /\ RunSend
  /\ air' = Sending("esn_send_entries", n, 1, esn_send_entries(VecOf(n), batch, 1))

\* SMOKE v3 relay: the receive path forwards the whole chainBest
SendForward(n, room, batch) ==
  /\ RunSend
  /\ air' = Sending("recv forward", n, room, ForwardFrags(ChainOf(n), batch, room))

\* Unified v2.2 relay: forward_upstream sends a decoded message of n bytes
SendUpstream(n, room, src_room) ==
  /\ RunSend
  /\ air' = Sending("forward_upstream", n, room,
                    forward_upstream(UniInit(room, FALSE, TRUE), src_room, Zeros(n), n,
                                     IceOrigin, 1, 0))

NextSend ==
  \/ \E n \in ListSizes, batch \in Batches : SendEntries(n, batch)
  \/ \E n \in MapSizes, room \in NodeRooms, batch \in Batches : SendForward(n, room, batch)
  \/ \E n \in MsgSizes, room \in NodeRooms, d \in {0, 1} : SendUpstream(n, room, room - d)

InitSend ==
  /\ fw = "send"
  /\ audit = "send"
  /\ smoke = 0 /\ uni = 0 /\ agg = 0 /\ chain = 0
  /\ air = Sending("none", 0, 1, <<>>)
  /\ HistInit
  /\ obs = 0

SpecSend == InitSend /\ [][NextSend]_vars

\* The length of a datagram as handed to esp_now_send, header included.
DatagramLen(d) == IF air.site = "forward_upstream" THEN d.len ELSE d.bytes

\* C14: every datagram that esn_send_entries, the receive-path forward (SMOKE
\* v3) or forward_upstream (Unified v2.2) hands to esp_now_send is at most
\* ESN_PAYLOAD_MAX = 250 bytes long, header included, whatever the size of the
\* entity list or of the message.
DatagramsFit ==
  \A i \in DOMAIN air.sent : DatagramLen(air.sent[i]) <= ESN_PAYLOAD_MAX

\* A list that wraps the 8-bit total is sent, and full fragments go out.
FullFragmentsSent ==
  /\ air.site = "esn_send_entries" /\ air.n > 255 * PerFrag
  /\ \E i \in DOMAIN air.sent :
       DatagramLen(air.sent[i]) = SizeofEsnHdr + ESN_FRAG_DATA_MAX


\* The entries of the fragments, concatenated in index order.
SentEntries(sent) ==
  LET Step(acc, i) == acc \o sent[i].ents
  IN FoldRange(Step, <<>>, Len(sent), Seq([dev : Nat, rssi : Int, room : Nat]))

\* C16: SMOKE v3 fragmentation of a list of 0..65535 entries: the header
\* field total equals the number of fragments sent, the indices run
\* 0..total-1 in send order, and the entries of the fragments concatenated in
\* index order are the whole list.
FragmentationLossless ==
  air.site \in {"esn_send_entries", "recv forward"}
    => /\ \A i \in DOMAIN air.sent :
            air.sent[i].total = Len(air.sent) /\ air.sent[i].index = i - 1
       /\ SentEntries(air.sent) = VecOf(air.n)

---------------------------------------------------------------------------
(* text-AGG with a wide table: the length of the AGG datagram *)

\* The cells of bestStr that the scanner fills in this analysis.
WideTags == 1..30

\* The relay of room 1, its next hop set.
WideNodes ==
  { [AggInit(MacOf(1), 1, FALSE, TailMac) EXCEPT !.bestStr = [t \in WideTags |-> 0],
                                                  !.bestRoom = [t \in WideTags |-> 0]] }

\* "T,<tag>,-30"
WideLineOf(tag) == <<"T", ",">> \o Dec(tag) \o <<",", "-", "3", "0">>

RunWide ==
  /\ fw = "aggwide"
  /\ UNCHANGED <<fw, audit, smoke, uni, chain, air, obs, base, merged, rxFor, rxIdx, rxTotal,
                 finalCount, fwdCount, got, lastRx, handled, winners>>

\* The scanner reports the tags one after the other, each at full strength.
WideUartLine(tag) ==
  /\ RunWide
  /\ agg.bestStr[tag] = 0
  /\ \A t \in WideTags : t < tag => agg.bestStr[t] > 0
  /\ agg' = pumpICE(agg, WideLineOf(tag))
  /\ UNCHANGED flushes

WideFlush ==
  /\ RunWide
  /\ flushes < MaxFlush
  /\ agg' = forwardAggOrPrint(agg)
  /\ flushes' = flushes + 1

NextWide ==
  \/ \E tag \in WideTags : WideUartLine(tag)
  \/ WideFlush

InitWide ==
  /\ fw = "aggwide"
  /\ audit = "wide"
  /\ agg \in WideNodes
  /\ smoke = 0 /\ uni = 0 /\ chain = 0 /\ air = 0
  /\ HistInit
  /\ obs = 0

SpecWide == InitWide /\ [][NextWide]_vars

\* C15: every AGG datagram that forwardAggOrPrint hands to sendNow for the
\* next hop is at most 250 bytes long, whatever bestStr holds.
AggDatagramFits ==
  agg.sent # <<>> /\ StartsWith(agg.sent, AggPrefix) => Len(agg.sent) <= ESN_PAYLOAD_MAX

---------------------------------------------------------------------------
(* Unified v2.2: the reassembly list and the seen cache *)

\* The number of fragments a buffer holds.
HaveCount(rb) == Cardinality({i \in 1..rb.total : rb.have[i]})

\* C17: a reassembly buffer whose last fragment is more than 3000 ms old takes
\* no further fragment and is never delivered: after a step it is still there
\* untouched, or gone, or replaced by a fresh buffer holding only the fragment
\* that just arrived; a message delivered in the step is not the stale one.
StaleNeverDelivered ==
  [][ fw = "u22" =>
        \A i \in DOMAIN uni.reasmList :
          LET rb == uni.reasmList[i]
          IN rb.stale =>
               /\ uni'.reasm # <<>> => get_u16_le(uni'.reasm[1], 12) # rb.seq
               /\ \A j \in DOMAIN uni'.reasmList :
                    LET nb == uni'.reasmList[j]
                    IN BufKey(nb) = BufKey(rb) /\ nb # rb => HaveCount(nb) = 1 ]_vars


\* Unified v2.2 fed with fragments of many keys.
SpecKeys == InitU22("keys") /\ [][NextU22]_vars

\* C18: the number of reassembly buffers held at once stays below a fixed
\* maximum; here, below the number of different keys whose fragments arrive.
ReasmListBounded == Len(uni.reasmList) < MaxKeys


---------------------------------------------------------------------------
(* Unified v2.2: the seen cache under a long run of messages *)

\* How many insertions past a full cache the analysis follows.
MaxOver == 3

\* END messages of the ICE (even seq, over the UART) and of the upstream
\* relay's ICE (odd seq, one fragment each over the radio).
SeenSrc(seq) == IF seq % 2 = 0 THEN uni.room ELSE uni.room - 1

SeenKeyOf(seq) == SeenKey(IceOrigin, 1, seq, SeenSrc(seq))

\* The keys in the order a cache must have taken them in: handled is the log.
SeenLogAfter(seq) ==
  IF InSeen(uni.seenCache, SeenKeyOf(seq)) THEN handled ELSE Append(handled, SeenKeyOf(seq))

\* What arrives next: the first seq never sent, the oldest key still cached,
\* or the key evicted last.
SeenNext ==
  {Len(handled)}
    \cup (IF uni.seenCache = <<>> THEN {} ELSE {uni.seenCache[1][3]})
    \cup (IF Len(handled) > SEEN_CACHE_MAX
          THEN {handled[Len(handled) - SEEN_CACHE_MAX][3]} ELSE {})

RunSeen ==
  /\ fw = "u22"
  /\ Len(handled) < SEEN_CACHE_MAX + MaxOver
  /\ UNCHANGED <<fw, audit, smoke, agg, chain, air, obs, base, merged, rxFor, rxIdx, rxTotal,
                 finalCount, fwdCount, got, lastRx, flushes, winners>>

SeenFrame(seq) ==
  /\ RunSeen
  /\ seq % 2 = 0
  /\ uni' = pollICE(uni, cobs_encode(EndMsg(seq).bytes))
  /\ handled' = SeenLogAfter(seq)

SeenRecv(seq) ==
  /\ RunSeen
  /\ seq % 2 = 1
  /\ \E f \in FragsOf(uni.room - 1, EndMsg(seq)) : uni' = UniRecvCb(uni, f)
  /\ handled' = SeenLogAfter(seq)

NextSeen ==
  \/ \E seq \in SeenNext : SeenFrame(seq)
  \/ \E seq \in SeenNext : SeenRecv(seq)

InitSeen ==
  /\ fw = "u22"
  /\ audit = "seen"
  /\ uni \in {UniInit(2, tail, TRUE) : tail \in BOOLEAN}
  /\ smoke = 0 /\ agg = 0 /\ chain = 0 /\ air = 0
  /\ obs = 0 /\ base = 0 /\ merged = 0 /\ rxFor = 0 /\ rxIdx = 0 /\ rxTotal = 0
  /\ finalCount = 0 /\ fwdCount = 0 /\ got = 0 /\ lastRx = 0 /\ flushes = 0 /\ winners = 0
  /\ handled = <<>>

SpecSeen == InitSeen /\ [][NextSeen]_vars

\* C19: seenCache holds at most SEEN_CACHE_MAX entries, no tuple twice, and it
\* is the tail of the insertion log: what a full cache loses to a new tuple
\* is the entry inserted first.
SeenCacheFifo ==
  LET c == uni.seenCache
      n == Len(handled)
  IN /\ Len(c) <= SEEN_CACHE_MAX
     /\ \A i, j \in DOMAIN c : c[i] = c[j] => i = j
     /\ c = SubSeq(handled, IF n > SEEN_CACHE_MAX THEN n - SEEN_CACHE_MAX + 1 ELSE 1, n)

\* A key evicted from the full cache came back and was inserted again.
SeenEvictedReturned ==
  /\ Len(handled) = SEEN_CACHE_MAX + 2
  /\ Len(uni.seenCache) = SEEN_CACHE_MAX
  /\ handled[Len(handled)] = handled[1]


---------------------------------------------------------------------------
(* Zone adjacency *)

\* C20: a node acts on a wireless fragment only when the fragment's src_room
\* is the room before its own: when the fragment that completes a message
\* leads to a merge, a flush or a forward, its src_room is room - 1.
ActsOnPreviousRoomOnly ==
  fw = "u22" /\ lastRx.last /\ (uni.proc \in {"parse", "flush"} \/ uni.sent # <<>>)
    => lastRx.key[4] = ToU8(uni.room - 1)


---------------------------------------------------------------------------
(* SMOKE v3: who numbers the batches *)

\* C21: only a node of room 1 changes its batch counter, and whatever a node
\* of another room transmits is the forward of an accepted fragment and
\* carries that fragment's batch id in every datagram.
BatchFromOrigin ==
  [][ fw = "v3" =>
        /\ smoke'.batch # smoke.batch => smoke.room = 1
        /\ smoke.room # 1 /\ smoke'.sent # <<>>
             => /\ lastRx'.last
                /\ \A i \in DOMAIN smoke'.sent : smoke'.sent[i].batch = lastRx'.key[2] ]_vars

\* A relay of room 2 has forwarded under a batch id that is not its own counter.
RelayForwardedForeignBatch ==
  /\ fw = "v3" /\ smoke.room = 2 /\ smoke.sent # <<>>
  /\ \A i \in DOMAIN smoke.sent : smoke.sent[i].batch # smoke.batch


\* C22: at the scan-cycle boundary of a non-tail node, every device in
\* localBest is in the table the node transmits next (chainBest), with the
\* node's room and the local value unless the table holds a stronger one.
LocalIncludedAtBoundary ==
  [][ fw = "v3" /\ ~smoke.tail /\ DOMAIN smoke.localBest # {} /\ DOMAIN smoke'.localBest = {}
        => \A dev \in DOMAIN smoke.localBest :
             /\ dev \in DOMAIN smoke'.chainBest
             /\ \/ smoke'.chainBest[dev].rssi > smoke.localBest[dev]
                \/ smoke'.chainBest[dev] = [rssi |-> smoke.localBest[dev], room |-> smoke.room]
    ]_vars


---------------------------------------------------------------------------
(* SMOKE v3: an entity that is no longer observed *)

\* Batch ids are only compared for equality, so the cycles of room 1 are
\* numbered round a small ring: the next id always differs from the last.
NextCycle(b) == IF b >= MaxBatch + 1 THEN 1 ELSE b + 1

\* What room 1 sends at a cycle boundary for the devices it observed.
CycleFrags(devs, rssi, batch) ==
  esn_send_entries(ChainEntries([dev \in devs |-> [rssi |-> rssi, room |-> 1]]), batch, 1)

RunStale ==
  /\ fw = "v3"
  /\ UNCHANGED <<fw, audit, uni, agg, chain, air, obs, base, merged, rxFor, rxIdx, rxTotal,
                 finalCount, fwdCount, got, lastRx, winners>>

\* A scan cycle of room 1 while device 1 is still in range: devices 1 and 2.
StaleObserved(rssi) ==
  /\ RunStale
  /\ handled = "observed"
  /\ \E d \in {CycleFrags({1, 2}, rssi, flushes)[1]} : smoke' = RecvCb(smoke, d)
  /\ flushes' = NextCycle(flushes)
  /\ UNCHANGED handled

\* Device 1 leaves every zone.
StaleStops ==
  /\ RunStale
  /\ handled = "observed"
  /\ handled' = "gone"
  /\ UNCHANGED <<smoke, flushes>>

\* A scan cycle of room 1 after that: device 2 only.
StaleCycle(rssi) ==
  /\ RunStale
  /\ handled = "gone"
  /\ \E d \in {CycleFrags({2}, rssi, flushes)[1]} : smoke' = RecvCb(smoke, d)
  /\ flushes' = NextCycle(flushes)
  /\ UNCHANGED handled

\* The node's own scanner: device 2, and the END marker.
StaleLine(rssi) ==
  /\ RunStale
  /\ smoke' = RecordLine(smoke, 2, rssi)
  /\ UNCHANGED <<handled, flushes>>

StaleEnd ==
  /\ RunStale
  /\ smoke' = EndOfScan(smoke)
  /\ UNCHANGED <<handled, flushes>>

NextStale ==
  \/ \E rssi \in RssiVals : StaleObserved(rssi)
  \/ StaleStops
  \/ \E rssi \in RssiVals : StaleCycle(rssi)
  \/ \E rssi \in RssiVals : StaleLine(rssi)
  \/ StaleEnd

InitStale ==
  /\ fw = "v3"
  /\ audit = "stale"
  /\ smoke \in {SmokeInit(2, tail) : tail \in BOOLEAN}
  /\ uni = 0 /\ agg = 0 /\ chain = 0 /\ air = 0
  /\ obs = 0 /\ base = 0 /\ merged = 0 /\ rxFor = 0 /\ rxIdx = 0 /\ rxTotal = 0
  /\ finalCount = 0 /\ fwdCount = 0 /\ got = 0 /\ lastRx = 0 /\ winners = 0
  /\ handled = "observed"      \* whether device 1 is still in range of some zone
  /\ flushes = 1               \* the batch id of room 1's next cycle

\* Room 1 keeps cycling: its scanner and its loop never stop.
SpecStale ==
  /\ InitStale
  /\ [][NextStale]_vars
  /\ WF_vars(\E rssi \in RssiVals : StaleCycle(rssi))

\* C23: once device 1 is observed by no zone, after finitely many scan cycles
\* the merge table of the relay or tail no longer holds it (and with it the
\* forwards and the FINAL prints no longer list it).
StaleEntityLeaves ==
  (handled = "gone") ~> (fw = "v3" /\ 1 \notin DOMAIN smoke.chainBest)


\* C24: a SMOKE v3 node whose entry list is empty hands no datagram to the
\* transport: after a step (scan-cycle flush or received fragment, one with
\* count = 0 included) that leaves the merge table empty, nothing was sent.
EmptyListSendsNothing ==
  [][ fw = "v3" /\ DOMAIN smoke'.chainBest = {} => smoke'.sent = <<>> ]_vars


---------------------------------------------------------------------------
(* The wired frame reader, byte by byte (Unified v0 and v2.2 pollICE) *)

FrameMaxOf(f) == IF f = "u0" THEN FRAME_MAX_V0 ELSE FRAME_MAX

\* A reader that stores every byte.
ReadByteUnguarded(max, rd, b) ==
  [frameBuf |-> Append(rd.frameBuf, b), frameLen |-> rd.frameLen + 1]

\* if (frameLen < FRAME_MAX) frameBuf[frameLen++] = b; else frameLen = 0;
ReadByte(max, rd, b) ==
  IF rd.frameLen < max
  THEN [frameBuf |-> Append(rd.frameBuf, b), frameLen |-> rd.frameLen + 1]
  ELSE [frameBuf |-> <<>>, frameLen |-> 0]

\* The bytes the UART delivers: the delimiter and a byte of line noise.
WireBytes == {0, 255}

RunReader ==
  /\ fw \in {"u0", "u22"}
  /\ audit = "reader"
  /\ UNCHANGED <<fw, audit, smoke, agg, chain, obs, base, merged, rxFor, rxIdx, rxTotal,
                 finalCount, fwdCount, got, handled, flushes, winners>>

\* b == 0x00: the buffered frame, if any, is decoded and processed.
ReaderDelimiter ==
  /\ RunReader
  /\ uni' = IF fw = "u0" THEN pollICE_v0(uni, air.frameBuf) ELSE pollICE(uni, air.frameBuf)
  /\ air' = IF air.frameLen > 0 THEN [frameBuf |-> <<>>, frameLen |-> 0] ELSE air
  /\ lastRx' = [byte |-> 0, full |-> air.frameLen >= FrameMaxOf(fw)]

\* Any other byte is stored, or resets a full buffer.
ReaderByte(b) ==
  /\ RunReader
  /\ b # 0
  /\ air' = ReadByte(FrameMaxOf(fw), air, b)
  /\ lastRx' = [byte |-> b, full |-> air.frameLen >= FrameMaxOf(fw)]
  /\ uni' = IF fw = "u0" THEN V0Quiet(uni) ELSE UniQuiet(uni)

NextReader ==
  \/ ReaderDelimiter
  \/ \E b \in WireBytes : ReaderByte(b)

InitReader ==
  /\ \/ fw = "u0" /\ uni = V0Init(2, FALSE)
     \/ fw = "u22" /\ uni = UniInit(2, FALSE, TRUE)
  /\ audit = "reader"
  /\ air = [frameBuf |-> <<>>, frameLen |-> 0]
  /\ smoke = 0 /\ agg = 0 /\ chain = 0
  /\ obs = 0 /\ base = 0 /\ merged = 0 /\ rxFor = 0 /\ rxIdx = 0 /\ rxTotal = 0
  /\ finalCount = 0 /\ fwdCount = 0 /\ got = 0 /\ handled = 0 /\ flushes = 0 /\ winners = 0
  /\ lastRx = [byte |-> 0, full |-> FALSE]

SpecReader == InitReader /\ [][NextReader]_vars

\* C25: whatever bytes arrive, frameLen never exceeds FRAME_MAX (1600 in v0,
\* 2000 in v2.2), and a byte other than the delimiter that arrives at a full
\* buffer leaves the buffer empty.
FrameLenBounded ==
  audit = "reader"
    => /\ air.frameLen <= FrameMaxOf(fw)
       /\ air.frameLen = Len(air.frameBuf)
       /\ lastRx.byte # 0 /\ lastRx.full => air.frameLen = 0

\* The v2.2 reader was full when a noise byte arrived.
FullBufferReset ==
  /\ audit = "reader" /\ fw = "u22"
  /\ lastRx.byte # 0 /\ lastRx.full
  /\ air.frameLen = 0


---------------------------------------------------------------------------
(* COBS framing: what the ICE sender encodes, decoded by the relay *)

MSG_MAX == 1400

\* Every message of one to four bytes over a zero and two other values.
ShortMsgs ==
  UNION {[1..n -> {0, 1, 255}] : n \in 1..4}

\* n bytes other than zero.
NonZeroRun(n) == [i \in 1..n |-> 1 + (i % 255)]

\* Runs around the 254-byte block length, bare, closed by a zero, and with a
\* zero inside; the longest message the sender builds.
LongMsgs ==
  UNION {{NonZeroRun(n), NonZeroRun(n) \o <<0>>, NonZeroRun(n) \o <<0, 7>>,
          <<0>> \o NonZeroRun(n), NonZeroRun(n) \o <<0>> \o NonZeroRun(n)}
            : n \in {253, 254, 255, 507, 508, 509}}
    \cup {NonZeroRun(MSG_MAX), [i \in 1..MSG_MAX |-> 0], NonZeroRun(MSG_MAX - 1) \o <<0>>}

CobsMsgs == ShortMsgs \cup LongMsgs

RunCobs ==
  /\ fw = "cobs"
  /\ air.site = "none"
  /\ UNCHANGED <<fw, audit, smoke, uni, agg, chain, hist>>

\* send_message of the ICE encodes m; pollICE of a v0 relay decodes the frame
CobsToV0(m) ==
  /\ RunCobs
  /\ \E enc \in {cobs_encode(m)} :
       air' = [site |-> "v0", msg |-> m, enc |-> enc, dec |-> cobs_decode(enc, DECODE_MAX_V0)]

\* the same frame at a v2.2 relay
CobsToU22(m) ==
  /\ RunCobs
  /\ \E enc \in {cobs_encode(m)} :
       air' = [site |-> "u22", msg |-> m, enc |-> enc, dec |-> cobs_decode(enc, DECODE_MAX)]

NextCobs ==
  \/ \E m \in CobsMsgs : CobsToV0(m)
  \/ \E m \in CobsMsgs : CobsToU22(m)

InitCobs ==
  /\ fw = "cobs"
  /\ audit = "cobs"
  /\ smoke = 0 /\ uni = 0 /\ agg = 0 /\ chain = 0
  /\ air = [site |-> "none", msg |-> <<>>, enc |-> <<>>, dec |-> <<>>]
  /\ HistInit
  /\ obs = 0

SpecCobs == InitCobs /\ [][NextCobs]_vars

\* C26: for every non-empty message of at most MSG_MAX bytes the encoded frame
\* holds no 0x00 byte and decodes to exactly the message.
CobsRoundTrip ==
  fw = "cobs" /\ air.site # "none"
    => /\ \A i \in DOMAIN air.enc : air.enc[i] # 0
       /\ air.dec = air.msg

\* A message with a run of more than 254 non-zero bytes that ends in a zero
\* came back whole.
LongRunRoundTrip ==
  /\ fw = "cobs" /\ air.site = "u22"
  /\ Len(air.msg) = MSG_MAX /\ air.msg[MSG_MAX] = 0 /\ air.msg[1] # 0
  /\ air.dec = air.msg


---------------------------------------------------------------------------
(* The console command setroom (SMOKE v3, Unified v0, Unified v2.2) *)

ToU16(x) == x % 65536

\* The arguments typed after "setroom", as numbers.
SetroomArgs == {-65536, -65535, -1, 0, 1, 3, 255, 256, 257, 65535, 65536, 65537, 65791, 65792}

\* uint16_t n = (uint16_t)rest.toInt(); if (n<1||n>255) { ERR; return; }
\* g_room = (uint8_t)n; saveRoom(); the same statement in the three firmwares.
\* con: the node's room, /room.txt and the line printed.
setroom(con, rest) ==
  LET n == ToU16(ToInt(rest))
  IN IF n < 1 \/ n > 255 THEN [con EXCEPT !.out = "ERR"]
     ELSE [room |-> ToU8(n), file |-> ToU8(n), out |-> "OK"]

RunRoom(f) ==
  /\ fw = f
  /\ audit = "setroom"
  /\ UNCHANGED <<fw, audit, agg, chain, obs, base, merged, rxFor, rxIdx, rxTotal,
                 finalCount, fwdCount, got, handled, flushes, winners>>

Console(room) == [room |-> room, file |-> air.file, out |-> "none"]

SetroomV3(arg) ==
  /\ RunRoom("v3")
  /\ \E con \in {setroom(Console(smoke.room), Dec(arg))} :
       /\ smoke' = [smoke EXCEPT !.room = con.room]
       /\ air' = [file |-> con.file, out |-> con.out]
  /\ lastRx' = [arg |-> arg, room |-> smoke.room, file |-> air.file]
  /\ UNCHANGED uni

SetroomV0(arg) ==
  /\ RunRoom("u0")
  /\ \E con \in {setroom(Console(uni.room), Dec(arg))} :
       /\ uni' = [uni EXCEPT !.room = con.room]
       /\ air' = [file |-> con.file, out |-> con.out]
  /\ lastRx' = [arg |-> arg, room |-> uni.room, file |-> air.file]
  /\ UNCHANGED smoke

SetroomU22(arg) ==
  /\ RunRoom("u22")
  /\ \E con \in {setroom(Console(uni.room), Dec(arg))} :
       /\ uni' = [uni EXCEPT !.room = con.room]
       /\ air' = [file |-> con.file, out |-> con.out]
  /\ lastRx' = [arg |-> arg, room |-> uni.room, file |-> air.file]
  /\ UNCHANGED smoke

NextRoom ==
  \/ \E arg \in SetroomArgs : SetroomV3(arg)
  \/ \E arg \in SetroomArgs : SetroomV0(arg)
  \/ \E arg \in SetroomArgs : SetroomU22(arg)

InitRoom ==
  /\ \/ fw = "v3" /\ smoke = SmokeInit(2, FALSE) /\ uni = 0
     \/ fw = "u0" /\ uni = V0Init(2, FALSE) /\ smoke = 0
     \/ fw = "u22" /\ uni = UniInit(2, FALSE, TRUE) /\ smoke = 0
  /\ audit = "setroom"
  /\ air = [file |-> 2, out |-> "none"]
  /\ agg = 0 /\ chain = 0
  /\ obs = 0 /\ base = 0 /\ merged = 0 /\ rxFor = 0 /\ rxIdx = 0 /\ rxTotal = 0
  /\ finalCount = 0 /\ fwdCount = 0 /\ got = 0 /\ handled = 0 /\ flushes = 0 /\ winners = 0
  /\ lastRx = [arg |-> 2, room |-> 2, file |-> 2]

SpecRoom == InitRoom /\ [][NextRoom]_vars

RoomNow == IF fw = "v3" THEN smoke.room ELSE uni.room

\* C27: setroom with an integer argument outside 1..255 prints an error and
\* leaves the room number, in memory and in /room.txt, as it was.
SetroomRejectsOutOfRange ==
  audit = "setroom" /\ lastRx.arg \notin 1..255
    => /\ air.out = "ERR"
       /\ RoomNow = lastRx.room
       /\ air.file = lastRx.file


---------------------------------------------------------------------------
(* text-AGG: one node and the CFG: messages that reconfigure it *)

NextKey == <<"n", "e", "x", "t", "=">>
TailKey == <<"t", "a", "i", "l", "=">>
MacKey == <<"m", "a", "c", "=">>

\* CFG messages: a next hop that parses, next hops that do not (not an address,
\* too short, a letter that is no hex digit), alone or addressed to a node by
\* its mac; the role, the room and clear.
CfgInputs ==
  { [text |-> CfgPrefix \o NextKey \o macToStr(MacOf(3)), badNext |-> FALSE],
    [text |-> CfgPrefix \o NextKey \o <<"x">>, badNext |-> TRUE],
    [text |-> CfgPrefix \o NextKey \o <<"A", "A", ":", "B", "B">>, badNext |-> TRUE],
    [text |-> CfgPrefix \o NextKey
                \o <<"G", "G", ":", "B", "B", ":", "C", "C", ":", "0", "0", ":", "0", "0", ":", "0", "3">>,
     badNext |-> TRUE],
    [text |-> CfgPrefix \o MacKey \o macToStr(MacOf(1)) \o <<",">> \o NextKey \o <<"x">>,
     badNext |-> TRUE],
    [text |-> CfgPrefix \o TailKey \o <<"1">>, badNext |-> FALSE],
    [text |-> CfgPrefix \o TailKey \o <<"0">>, badNext |-> FALSE],
    [text |-> CfgPrefix \o MacKey \o macToStr(MacOf(3)) \o <<",">> \o TailKey \o <<"1">>,
     badNext |-> FALSE],
    [text |-> CfgPrefix \o <<"r", "o", "o", "m", "=", "3">>, badNext |-> FALSE],
    [text |-> CfgPrefix \o <<"c", "l", "e", "a", "r", "=", "1">>, badNext |-> FALSE] }

CfgData == <<"A", "G", "G", ":", "1", ".", "1", "@", "1", "0", "0">>

RunCfg ==
  /\ fw = "agg"
  /\ UNCHANGED <<fw, audit, smoke, uni, chain, air, obs, base, merged, rxFor, rxIdx, rxTotal,
                 finalCount, fwdCount, got, handled, winners>>

\* What the history keeps of a step: the message, and the node before it.
CfgRx(kind, bad) ==
  [kind |-> kind, badNext |-> bad, nextMac |-> agg.nextMac, saved |-> agg.prefs.next,
   isTail |-> agg.isTail]

\* A CFG: datagram arrives
CfgRecv(in) ==
  /\ RunCfg
  /\ agg' = onRecv(agg, in.text)
  /\ lastRx' = CfgRx("cfg", in.badNext)
  /\ UNCHANGED flushes

\* An AGG: datagram of the node upstream arrives
CfgAggRecv ==
  /\ RunCfg
  /\ agg' = onRecv(agg, CfgData)
  /\ lastRx' = CfgRx("agg", FALSE)
  /\ UNCHANGED flushes

\* The flush period elapses
CfgFlush ==
  /\ RunCfg
  /\ flushes < MaxFlush
  /\ agg' = forwardAggOrPrint(agg)
  /\ flushes' = flushes + 1
  /\ lastRx' = CfgRx("flush", FALSE)

NextCfg ==
  \/ \E in \in CfgInputs : CfgRecv(in)
  \/ CfgAggRecv
  \/ CfgFlush

InitCfg ==
  /\ fw = "agg"
  /\ audit = "cfg"
  /\ agg \in AggNodes
  /\ smoke = 0 /\ uni = 0 /\ chain = 0 /\ air = 0
  /\ obs = 0 /\ base = 0 /\ merged = 0 /\ winners = 0
  /\ flushes = 0
  /\ rxFor = 0 /\ rxIdx = 0 /\ rxTotal = 0 /\ finalCount = 0 /\ fwdCount = 0
  /\ got = 0 /\ handled = 0
  /\ lastRx = [kind |-> "none", badNext |-> FALSE, nextMac |-> agg.nextMac,
               saved |-> agg.prefs.next, isTail |-> agg.isTail]

SpecCfg == InitCfg /\ [][NextCfg]_vars

\* C28: a CFG message whose next= value is no address leaves nextMac, in
\* memory and in the preferences, as it was before the message.
MalformedNextKept ==
  audit = "cfg" /\ lastRx.kind = "cfg" /\ lastRx.badNext
    => /\ agg.nextMac = lastRx.nextMac
       /\ agg.prefs.next = lastRx.saved


---------------------------------------------------------------------------
(* The tail role, switched while the node runs (SMOKE v3, Unified v2.2, text-AGG) *)

\* SMOKE v3 console: tail on|off
TailCmdV3(on) ==
  /\ fw = "v3"
  /\ smoke' = [smoke EXCEPT !.tail = on, !.sent = <<>>, !.final = NoFinal]
  /\ winners' = [from |-> smoke.tail, to |-> on]
  /\ lastRx' = RxAfter(NoRx)
  /\ UNCHANGED <<fw, audit, uni, agg, chain, air, obs, base, merged, rxFor, rxIdx, rxTotal,
                 finalCount, fwdCount, got, handled, flushes>>

\* Unified v2.2 console: tail on|off
TailCmdU22(on) ==
  /\ fw = "u22"
  /\ uni' = [UniQuiet(uni) EXCEPT !.tail = on]
  /\ winners' = [from |-> uni.tail, to |-> on]
  /\ lastRx' = NoRx
  /\ UNCHANGED <<fw, audit, smoke, agg, chain, air, obs, base, merged, rxFor, rxIdx, rxTotal,
                 finalCount, fwdCount, got, handled, flushes>>

NextTail ==
  \/ fw = "v3" /\ \E l \in Lines : V3Line(l[1], l[2])
  \/ V3EndLine
  \/ V3Timeout
  \/ V3JunkLine
  \/ fw = "v3" /\ \E d \in Datagrams(smoke.room) : V3Recv(d)
  \/ \E on \in BOOLEAN : TailCmdV3(on)
  \/ fw = "u22" /\ \E f \in UniFrags(uni.room) : UniRecv(f)
  \/ fw = "u22" /\ \E fr \in UniFrames : UniFrame(fr)
  \/ UniElapse
  \/ \E on \in BOOLEAN : TailCmdU22(on)
  \/ \E in \in CfgInputs : CfgRecv(in)
  \/ CfgAggRecv
  \/ CfgFlush

InitTail == InitV3("tail") \/ InitU22("tail") \/ InitCfg

SpecTail == InitTail /\ [][NextTail]_vars

\* C29: a node whose tail flag is on has handed nothing to esp_now_send in the
\* step just taken (no fragment in v3 and v2.2, no AGG line in text-AGG), and
\* a node whose flag is off forwards: the v3 relay on the fragment it accepts,
\* the text-AGG relay with a next hop on its flush. The flag is the one the
\* last command or CFG message set.
TailHonoured ==
  /\ fw = "v3" =>
       /\ smoke.tail => smoke.sent = <<>>
       /\ ~smoke.tail /\ lastRx.last => smoke.sent # <<>>
  /\ fw = "u22" => (uni.tail => uni.sent = <<>>)
  /\ fw = "agg" =>
       /\ agg.isTail => agg.sent = <<>>
       /\ ~agg.isTail /\ lastRx.kind = "flush" /\ ~macIsZero(agg.nextMac)
            => StartsWith(agg.sent, AggPrefix)

\* A v3 tail was switched to relay and forwarded the next fragment it accepted.
TailOffThenForwarded ==
  /\ fw = "v3"
  /\ winners = [from |-> TRUE, to |-> FALSE]
  /\ lastRx.last /\ smoke.sent # <<>>


---------------------------------------------------------------------------
(* The UI node's CLI (tail, chain) and the text-AGG nodes it configures *)

\* The text-AGG nodes in range of the UI, by index; uiNodes[i] has MacOf(i).
UiNodeIds == {1, 2, 3}

UiInit == [tailMac |-> ZeroMac, haveTail |-> FALSE, out |-> <<>>]

\* cfgKV_target and bcastKV: the datagram and where it goes
cfgKV_target(mac, kv) == [to |-> mac, text |-> CfgPrefix \o kv]

bcastKV(kv) == [to |-> bcastAddr, text |-> CfgPrefix \o kv]

\* handleCLI, "tail <MAC>"
handleCLI_tail(ui, arg) ==
  LET t == strToMac(arg)
  IN IF ~t.ok THEN [ui EXCEPT !.out = <<>>]
     ELSE [tailMac |-> t.mac, haveTail |-> TRUE,
           out |-> <<cfgKV_target(t.mac, TailKey \o <<"1">>), bcastKV(TailKey \o <<"0">>)>>]

\* doChain: the addresses of the list that parse, in order
RECURSIVE ChainList(_, _)
ChainList(csv, p) ==
  IF p >= Len(csv) THEN <<>>
  ELSE LET c0 == IndexOf(csv, ",", p)
           c  == IF c0 < 0 THEN Len(csv) ELSE c0
           t  == Trim(Substring(csv, p, c))
       IN (IF t # <<>> /\ strToMac(t).ok THEN <<strToMac(t).mac>> ELSE <<>>)
            \o ChainList(csv, c + 1)

\* doChain: idx and next to every node of the list
RECURSIVE ChainHops(_, _)
ChainHops(list, i) ==
  IF i > Len(list) THEN <<>>
  ELSE <<cfgKV_target(list[i], <<"i", "d", "x", "=">> \o Dec(i)),
         cfgKV_target(list[i], NextKey \o macToStr(IF i < Len(list) THEN list[i + 1] ELSE ZeroMac))>>
         \o ChainHops(list, i + 1)

doChain(ui, csv) ==
  LET list == ChainList(csv, 0)
  IN IF list = <<>> THEN [ui EXCEPT !.out = <<>>]
     ELSE [tailMac |-> list[Len(list)], haveTail |-> TRUE,
           out |-> ChainHops(list, 1)
                     \o <<bcastKV(<<"s", "l", "o", "t", "s", "=">> \o Dec(Len(list))),
                          cfgKV_target(list[Len(list)], TailKey \o <<"1">>),
                          bcastKV(TailKey \o <<"0">>)>>]

\* esp_now_send: a unicast reaches the node of that address, a broadcast every
\* node; each node receives what is sent to it in the order it was sent.
RECURSIVE Enqueue(_, _, _)
Enqueue(queues, out, k) ==
  IF k > Len(out) THEN queues
  ELSE Enqueue([i \in UiNodeIds |->
                  IF out[k].to = bcastAddr \/ out[k].to = MacOf(i)
                  THEN Append(queues[i], out[k].text) ELSE queues[i]],
               out, k + 1)

\* The node a command names, 0 when it is none of the nodes.
NamedBy(ui) ==
  IF \E i \in UiNodeIds : MacOf(i) = ui.tailMac
  THEN CHOOSE i \in UiNodeIds : MacOf(i) = ui.tailMac ELSE 0

\* What is typed after "tail": the address of a node, and a text that is none.
TailArgs == {macToStr(MacOf(i)) : i \in UiNodeIds} \cup {<<"x">>}

\* What is typed after "chain": two nodes, three nodes, one node.
ChainArgs ==
  { macToStr(MacOf(1)) \o <<",">> \o macToStr(MacOf(2)),
    macToStr(MacOf(3)) \o <<",", " ">> \o macToStr(MacOf(2)) \o <<",">> \o macToStr(MacOf(1)),
    macToStr(MacOf(2)) }

RunUi ==
  /\ fw = "ui"
  /\ UNCHANGED <<fw, audit, smoke, agg, obs, base, merged, rxFor, rxIdx, rxTotal,
                 finalCount, fwdCount, got, handled, winners>>

Idle == \A i \in UiNodeIds : air[i] = <<>>

\* The operator types a command when the air is quiet (at most MaxFlush commands)
UiCommand(next) ==
  /\ RunUi
  /\ Idle
  /\ flushes < MaxFlush
  /\ uni' = next
  /\ air' = Enqueue(air, next.out, 1)
  /\ flushes' = flushes + 1
  /\ lastRx' = IF next.out = <<>> THEN lastRx ELSE [named |-> NamedBy(next)]
  /\ UNCHANGED chain

UiTail(arg) == fw = "ui" /\ UiCommand(handleCLI_tail(uni, arg))

UiChain(csv) == fw = "ui" /\ UiCommand(doChain(uni, csv))

\* A node's onRecv runs for the oldest datagram waiting for it
UiDeliver(i) ==
  /\ RunUi
  /\ air[i] # <<>>
  /\ chain' = [chain EXCEPT ![i] = onRecv(@, Head(air[i]))]
  /\ air' = [air EXCEPT ![i] = Tail(@)]
  /\ UNCHANGED <<uni, flushes, lastRx>>

NextUi ==
  \/ \E arg \in TailArgs : UiTail(arg)
  \/ \E csv \in ChainArgs : UiChain(csv)
  \/ \E i \in UiNodeIds : UiDeliver(i)

InitUi ==
  /\ fw = "ui"
  /\ audit = "ui"
  /\ uni = UiInit
  /\ chain \in {[i \in UiNodeIds |-> AggInit(MacOf(i), i, i = t, ZeroMac)] : t \in UiNodeIds \cup {0}}
  /\ air = [i \in UiNodeIds |-> <<>>]
  /\ smoke = 0 /\ agg = 0
  /\ obs = 0 /\ base = 0 /\ merged = 0 /\ rxFor = 0 /\ rxIdx = 0 /\ rxTotal = 0
  /\ finalCount = 0 /\ fwdCount = 0 /\ got = 0 /\ handled = 0 /\ winners = 0
  /\ flushes = 0
  /\ lastRx = [named |-> 0]

SpecUi == InitUi /\ [][NextUi]_vars

\* C30: once every configuration message of a tail or chain command has been
\* delivered, the node the command named is the tail and no other node is.
TailCommandSettles ==
  fw = "ui" /\ lastRx.named # 0 /\ Idle
    => \A i \in UiNodeIds : chain[i].isTail = (i = lastRx.named)


---------------------------------------------------------------------------
(* rssiToStrength over its inputs, in pairs *)

\* Received powers: the clamp range with a margin on both sides, and values
\* far outside it.
StrengthInputs == (-110..-20) \cup {-100000, -1000, 0, 127, 100000}

RunStrength ==
  /\ fw = "strength"
  /\ air.site = "none"
  /\ UNCHANGED <<fw, audit, smoke, uni, agg, chain, hist>>

\* Two calls of rssiToStrength, on the inputs drawn at the start
StrengthOf ==
  /\ RunStrength
  /\ air' = [air EXCEPT !.site = "done", !.s1 = rssiToStrength(air.r1),
                        !.s2 = rssiToStrength(air.r2)]

NextStrength == StrengthOf

InitStrength ==
  /\ fw = "strength"
  /\ audit = "strength"
  /\ smoke = 0 /\ uni = 0 /\ agg = 0 /\ chain = 0
  /\ air \in {[site |-> "none", r1 |-> r1, r2 |-> r2, s1 |-> 0, s2 |-> 0] :
               r1 \in StrengthInputs, r2 \in StrengthInputs}
  /\ HistInit
  /\ obs = 0

SpecStrength == InitStrength /\ [][NextStrength]_vars

ClampRssi(r) == IF r > -30 THEN -30 ELSE IF r < -100 THEN -100 ELSE r

\* C31: rssiToStrength maps into 0..100, yields 0 at and below -100 and 100 at
\* and above -30, gives an input the value of the input clamped to [-100, -30],
\* and never decreases as the input grows.
StrengthMonotone ==
  fw = "strength" /\ air.site = "done"
    => /\ air.s1 \in 0..100
       /\ air.r1 <= -100 => air.s1 = 0
       /\ air.r1 >= -30 => air.s1 = 100
       /\ air.s1 = rssiToStrength(ClampRssi(air.r1))
       /\ air.r1 <= air.r2 => air.s1 <= air.s2

\* Both clamps were hit, and two neighbours inside the range differ.
StrengthClamped ==
  /\ fw = "strength" /\ air.site = "done"
  /\ air.r1 < -100 /\ air.r2 > -30
  /\ air.s1 = 0 /\ air.s2 = 100
  /\ rssiToStrength(-65) < rssiToStrength(-64)

---------------------------------------------------------------------------
(* A loss-free linear chain: rooms 1..HopRooms, one node per room, the tail last *)

HopRooms == 3

HopChain == 1..HopRooms

\* esp_now_send to the broadcast address, nothing lost: the radio of every other
\* node queues the datagrams in the order they were sent.
Broadcast(queues, from, frags) ==
  [r \in DOMAIN queues |-> IF r = from THEN queues[r] ELSE queues[r] \o frags]

\* Nothing is in flight: a scan window lasts seconds, a datagram milliseconds.
AirQuiet == \A r \in HopChain : air[r] = <<>>

RunHop(f) ==
  /\ fw = f
  /\ UNCHANGED <<fw, audit, smoke, uni, agg, base, merged, rxFor, rxIdx, rxTotal, finalCount,
                 fwdCount, got, lastRx, flushes, winners>>

\* -- SMOKE v3 ---------------------------------------------------------------

\* The scanner of room 1 reports an entity; no other room observes anything.
HopV3Line(dev, rssi) ==
  /\ RunHop("v3hop")
  /\ chain[1].batch <= MaxBatch
  /\ chain' = [chain EXCEPT ![1] = RecordLine(@, dev, rssi)]
  /\ obs' = obs \cup {dev}
  /\ UNCHANGED <<air, handled>>

\* The END marker (or the line timeout) closes the scan window of room 1. (In
\* the other rooms, where nothing was observed, the same call changes nothing.)
HopV3End ==
  /\ RunHop("v3hop")
  /\ chain[1].batch <= MaxBatch
  /\ AirQuiet
  /\ \E nd \in {EndOfScan(chain[1])} :
       /\ chain' = [chain EXCEPT ![1] = nd]
       /\ air' = Broadcast(air, 1, nd.sent)
  /\ UNCHANGED <<obs, handled>>

\* The radio of room r hands the oldest queued datagram to the receive callback.
HopV3Deliver(r) ==
  /\ RunHop("v3hop")
  /\ air[r] # <<>>
  /\ \E nd \in {RecvCb(chain[r], Head(air[r]))} :
       /\ chain' = [chain EXCEPT ![r] = nd]
       /\ air' = Broadcast([air EXCEPT ![r] = Tail(@)], r, nd.sent)
       /\ handled' = IF nd.final.printed
                     THEN handled \cup {<<r, l[1], l[2]>> : l \in Range(nd.final.lines)}
                     ELSE handled
  /\ UNCHANGED obs

NextHopV3 ==
  \/ \E dev \in Dev : HopV3Line(dev, SetMax(RssiVals))
  \/ HopV3End
  \/ \E r \in HopChain : HopV3Deliver(r)

InitHop(f) ==
  /\ fw = f
  /\ audit = "hop"
  /\ air = [r \in HopChain |-> <<>>]
  /\ smoke = 0 /\ uni = 0 /\ agg = 0
  /\ HistInit
  /\ obs = {}

InitHopV3 ==
  /\ InitHop("v3hop")
  /\ chain = [r \in HopChain |-> SmokeInit(r, r = HopRooms)]

\* The loop of room 1 closes every window (END marker or timeout), and the
\* radio delivers every datagram queued for a node.
SpecHopV3 ==
  /\ InitHopV3
  /\ [][NextHopV3]_vars
  /\ WF_vars(HopV3End)
  /\ \A r \in HopChain : WF_vars(HopV3Deliver(r))

\* FINAL of the tail lists entity e with room 1
TailFinalNames(e) ==
  /\ chain[HopRooms].final.printed
  /\ \E i \in 1..Len(chain[HopRooms].final.lines) :
       chain[HopRooms].final.lines[i][1] = 1 /\ chain[HopRooms].final.lines[i][2] = e

HopMsgs == {MsgSmall, MsgMid, MsgEnd}

\* The messages by their seq
HopSeqs == {m.seq : m \in HopMsgs}

HopMsg(q) == CHOOSE m \in HopMsgs : m.seq = q

\* seq of a message, read from its bytes
SeqOf(m) == get_u16_le(m, 12)

\* The scanner of room 1 writes one frame; the node reads it up to the delimiter.
HopU22Frame(q) ==
  /\ RunHop("u22hop")
  /\ AirQuiet
  /\ \E nd \in {pollICE(chain[1], FrameOf(HopMsg(q)).wire)} :
       /\ chain' = [chain EXCEPT ![1] = nd]
       /\ air' = Broadcast(air, 1, nd.sent)
       /\ obs' = IF nd.proc \in {"parse", "flush", "seen"} THEN obs \cup {q} ELSE obs
  /\ UNCHANGED handled

\* The radio of room r hands the oldest queued fragment to the receive callback.
\* handled collects what the tail reassembled and passed on to processDecodedMessage.
HopU22Deliver(r) ==
  /\ RunHop("u22hop")
  /\ air[r] # <<>>
  /\ \E nd \in {UniRecvCb(chain[r], Head(air[r]))} :
       /\ chain' = [chain EXCEPT ![r] = nd]
       /\ air' = Broadcast([air EXCEPT ![r] = Tail(@)], r, nd.sent)
       /\ handled' = IF r = HopRooms /\ nd.reasm # <<>> /\ nd.proc \in {"parse", "flush", "seen"}
                     THEN handled \cup {SeqOf(nd.reasm[1])}
                     ELSE handled
  /\ UNCHANGED obs

NextHopU22 ==
  \/ \E q \in HopSeqs : HopU22Frame(q)
  \/ \E r \in HopChain : HopU22Deliver(r)

InitHopU22 ==
  /\ InitHop("u22hop")
  /\ chain = [r \in HopChain |-> UniInit(r, r = HopRooms, TRUE)]

\* The scanner keeps reporting, and the radio delivers every fragment queued
\* for a node.
SpecHopU22 ==
  /\ InitHopU22
  /\ [][NextHopU22]_vars
  /\ WF_vars(\E q \in HopSeqs : HopU22Frame(q))
  /\ \A r \in HopChain : WF_vars(HopU22Deliver(r))

\* C33: in the loss-free chain 1..N with the tail at N, every message room 1
\* ingested from its scanner is eventually reassembled and accepted by the tail:
\* once every fragment sent has been delivered and nothing is in flight any
\* more, the tail has accepted each message that room 1 ingested.
IngestedReachesTail == AirQuiet => obs \subseteq handled

---------------------------------------------------------------------------
(* text-AGG: the decay of the table over the flush periods *)

\* Flushes it takes the largest strength, 100, to decay to 0
DecayFlushes == 100 \div 2

\* Scanner lines (strengths 100, 51 and 80) and AGG lines of upstream nodes,
\* one of them claiming more than the scale holds.
DecayLines ==
  { <<"T", ",", "1", ",", "-", "3", "0">>,
    <<"T", ",", "1", ",", "-", "6", "4">>,
    <<"T", ",", "2", ",", "-", "4", "4">> }

DecayDatagrams ==
  { <<"A", "G", "G", ":", "1", ".", "1", "@", "2", "5", "0">>,
    <<"A", "G", "G", ":", "1", ".", "1", "@", "7", ",", "3", ".", "2", "@", "5", "0">> }

RunDecay ==
  /\ fw = "aggdecay"
  /\ UNCHANGED <<fw, audit, smoke, uni, chain, air, obs, merged, rxFor, rxIdx, rxTotal,
                 finalCount, fwdCount, handled, flushes, winners>>

\* got counts, per tag, the flushes since the tag was last observed or named
\* by an AGG entry (saturating one above DecayFlushes).
Renewed(S) == [t \in Tags |-> IF t \in S THEN 0 ELSE got[t]]

\* Scanner and upstream nodes report in bursts: at the start, halfway through
\* the decay of a full-strength entry, and once it has run its course.
Burst == \A t \in Tags : got[t] \in {0, DecayFlushes \div 2, DecayFlushes + 1}

DecayLine(raw) ==
  /\ RunDecay
  /\ Burst
  /\ agg' = AggUart(agg, raw)
  /\ got' = Renewed({o[1] : o \in AggObserved(agg, raw)})
  /\ lastRx' = "line"
  /\ UNCHANGED base

DecayRecv(msg) ==
  /\ RunDecay
  /\ Burst
  /\ agg' = onRecv(agg, msg)
  /\ got' = Renewed({r[2] : r \in AggReceived(msg)})
  /\ lastRx' = "recv"
  /\ UNCHANGED base

\* loop(): the flush period has elapsed. base keeps the strengths before it.
DecayFlush ==
  /\ RunDecay
  /\ agg' = forwardAggOrPrint(agg)
  /\ got' = [t \in Tags |-> Min(got[t] + 1, DecayFlushes + 1)]
  /\ base' = agg.bestStr
  /\ lastRx' = "flush"

NextDecay ==
  \/ \E raw \in DecayLines : DecayLine(raw)
  \/ \E msg \in DecayDatagrams : DecayRecv(msg)
  \/ DecayFlush

InitDecay ==
  /\ fw = "aggdecay"
  /\ audit = "decay"
  /\ agg \in {nd \in AggNodes : nd.roomNo # 0}
  /\ smoke = 0 /\ uni = 0 /\ chain = 0 /\ air = 0
  /\ obs = 0 /\ merged = 0 /\ winners = 0 /\ flushes = 0
  /\ rxFor = EmptyMap /\ rxIdx = {} /\ rxTotal = 0
  /\ finalCount = EmptyMap /\ fwdCount = EmptyMap /\ handled = {}
  /\ base = agg.bestStr
  /\ got = [t \in Tags |-> 0]
  /\ lastRx = "none"

SpecDecay == InitDecay /\ [][NextDecay]_vars

\* The tags named by the AGG or UI line of this call
LineTags(nd) == {r[2] : r \in AggRecords(IF nd.isTail THEN nd.ui ELSE nd.sent, 4)}

\* C34: each flush lowers the stored strength of a tag by 2, floored at 0; a
\* tag neither observed nor named by an AGG entry for DecayFlushes flushes has
\* strength 0 and no room, and no AGG/UI line built after that names it.
DecayTerminates ==
  \A t \in Tags :
    /\ lastRx = "flush" => agg.bestStr[t] = (IF base[t] > 2 THEN base[t] - 2 ELSE 0)
    /\ got[t] >= DecayFlushes => agg.bestStr[t] = 0 /\ agg.bestRoom[t] = 0
    /\ lastRx = "flush" /\ got[t] > DecayFlushes => t \notin LineTags(agg)

\* The 50th flush since a tag was written at full strength takes the last 2
\* units; the line of that flush still names the tag.
DecayReachedZero ==
  \E t \in Tags :
    /\ lastRx = "flush" /\ got[t] = DecayFlushes
    /\ base[t] = 2 /\ agg.bestStr[t] = 0 /\ agg.bestRoom[t] = 0
    /\ t \in LineTags(agg)

---------------------------------------------------------------------------
(* text-AGG: the bounds of the strength table *)

\* Cells watched: the first and last entries of bestStr[MAX_TAG_ID + 1], cell 0
\* (allocated, never used) and the byte that follows the array.
TableCells == {0, 1, 2, MAX_TAG_ID, MAX_TAG_ID + 1}

TableNodes ==
  { [nd EXCEPT !.bestStr = [t \in TableCells |-> 0], !.bestRoom = [t \in TableCells |-> 0]] :
      nd \in {n \in AggNodes : n.roomNo # 0} }

\* Scanner lines: ids 1, 2, 1024 and the ids 1025, 2000 outside the table;
\* received powers inside and outside the scale.
TableLines ==
  { <<"T", ",", "1", ",", "-", "6", "5">>,
    <<"T", ",", "2", ",", "5">>,
    <<"T", ",", "2", ",", "-", "1", "2", "0">>,
    <<"T", ",", "1", "0", "2", "4", ",", "-", "4", "4">>,
    <<"T", ",", "1", "0", "2", "5", ",", "-", "3", "0">>,
    <<"T", "A", "G", ",", "2", "0", "0", "0", ",", "-", "3", "0">> }

\* AGG lines: strengths above 100 and below 0, ids 0 and 1025, and an id
\* outside the table next to one inside.
TableDatagrams ==
  { <<"A", "G", "G", ":", "1", ".", "1", "@", "2", "5", "0">>,
    <<"A", "G", "G", ":", "1", ".", "2", "@", "-", "5">>,
    <<"A", "G", "G", ":", "3", ".", "1", "0", "2", "4", "@", "1", "0", "0">>,
    <<"A", "G", "G", ":", "1", ".", "1", "0", "2", "5", "@", "7", "0">>,
    <<"A", "G", "G", ":", "1", ".", "0", "@", "6", "0">>,
    <<"A", "G", "G", ":", "1", ".", "1", "0", "2", "5", "@", "7", "0", ",", "3", ".", "2", "@", "5", "0">> }

\* The ids the tokens of an AGG line name, in the table or not
RECURSIVE TokenTags(_, _)
TokenTags(msg, p) ==
  IF p >= Len(msg) THEN {}
  ELSE LET t == AggToken(msg, p)
       IN (IF t.ok THEN {t.tag} ELSE {}) \cup TokenTags(msg, t.next)

\* The ids a scanner line names
LineTagIds(nd, raw) ==
  LET t == parseTagLine(Trim(raw))
  IN IF ~nd.isTail /\ Trim(raw) # <<>> /\ t.ok THEN {t.tag} ELSE {}

RunTable ==
  /\ fw = "aggtable"
  /\ UNCHANGED <<fw, audit, smoke, uni, chain, air, obs, merged, rxFor, rxIdx, rxTotal,
                 finalCount, fwdCount, got, handled, winners>>

\* base keeps the table as it was before the step, lastRx the ids the input named.
TableBefore == [str |-> agg.bestStr, room |-> agg.bestRoom]

TableLine(raw) ==
  /\ RunTable
  /\ agg' = AggUart(agg, raw)
  /\ base' = TableBefore
  /\ lastRx' = [kind |-> "line", ids |-> LineTagIds(agg, raw)]
  /\ UNCHANGED flushes

TableRecv(msg) ==
  /\ RunTable
  /\ agg' = onRecv(agg, msg)
  /\ base' = TableBefore
  /\ lastRx' = [kind |-> "recv", ids |-> TokenTags(msg, 4)]
  /\ UNCHANGED flushes

TableFlush ==
  /\ RunTable
  /\ flushes < MaxFlush
  /\ flushes' = flushes + 1
  /\ agg' = forwardAggOrPrint(agg)
  /\ base' = TableBefore
  /\ lastRx' = [kind |-> "flush", ids |-> {}]

NextTable ==
  \/ \E raw \in TableLines : TableLine(raw)
  \/ \E msg \in TableDatagrams : TableRecv(msg)
  \/ TableFlush

InitTable ==
  /\ fw = "aggtable"
  /\ audit = "table"
  /\ agg \in TableNodes
  /\ smoke = 0 /\ uni = 0 /\ chain = 0 /\ air = 0
  /\ obs = 0 /\ merged = 0 /\ winners = 0 /\ flushes = 0 /\ got = 0
  /\ rxFor = EmptyMap /\ rxIdx = {} /\ rxTotal = 0
  /\ finalCount = EmptyMap /\ fwdCount = EmptyMap /\ handled = {}
  /\ base = TableBefore
  /\ lastRx = [kind |-> "none", ids |-> {}]

SpecTable == InitTable /\ [][NextTable]_vars

\* C35: whatever scanner lines and AGG messages arrive, only the cells of the
\* ids 1..MAX_TAG_ID are ever written, an observation naming another id leaves
\* every entry as it was, and every stored strength is within 0..100.
TableBounded ==
  \A t \in TableCells :
    /\ agg.bestStr[t] \in 0..100
    /\ ~InRange(t) => agg.bestStr[t] = 0 /\ agg.bestRoom[t] = 0
    /\ lastRx.kind \in {"line", "recv"} /\ t \notin {i \in lastRx.ids : InRange(i)}
         => agg.bestStr[t] = base.str[t] /\ agg.bestRoom[t] = base.room[t]

\* An input naming only an id outside 1..MAX_TAG_ID met a table that holds
\* entries, among them the last id and a strength clamped to 100.
OutOfRangeRejected ==
  /\ lastRx.kind \in {"line", "recv"}
  /\ lastRx.ids # {} /\ \A i \in lastRx.ids : ~InRange(i)
  /\ agg.bestStr[MAX_TAG_ID] > 0 /\ agg.bestStr[1] = 100
  /\ agg.bestStr = base.str /\ agg.bestRoom = base.room

---------------------------------------------------------------------------
(* Unified v2.2: where the payload of a fragment lands in the reassembly buffer *)

\* Payload lengths: short, a full slot, and the most a 250-byte datagram holds
\* behind the 20-byte header.
SlotLens == {10, ESN_FRAG_DATA_MAX, ESN_PAYLOAD_MAX - SizeofEsnFrag}

\* A fragment of key (IceOrigin, 1, seq, src); its payload bytes tell the index.
SlotFrag(src, seq, total, index, n) ==
  [ ok |-> TRUE, src_room |-> src, total |-> total, index |-> index,
    origin |-> IceOrigin, batch |-> 1, seq |-> seq,
    frag_len |-> n, data |-> [i \in 1..n |-> 17 * (index + 1)],
    len |-> SizeofEsnFrag + n ]

\* A two-fragment message (seq 1) and a one-fragment message (seq 3)
SlotFrags(room) ==
  {SlotFrag(room - 1, 1, 2, index, n) : index \in {0, 1}, n \in SlotLens}
    \cup {SlotFrag(room, 3, 1, 0, n) : n \in SlotLens}

\* The buffer the callback stores f in: the one of f's key, or a new one
SlotBuffer(nd, f) ==
  LET found == ReasmLookup(nd.reasmList, 1, f)
  IN IF found.slot = 0 THEN NewReasmBuf(f) ELSE found.list[found.slot]

\* Bytes the copy of f's payload writes past the end of rb.data
PastEnd(rb, f) ==
  LET over == f.index * ESN_FRAG_DATA_MAX + f.frag_len - Len(rb.data)
  IN IF over > 0 THEN over ELSE 0

\* The node after the callback. A copy that runs past the end of the vector
\* corrupts the heap: the node restarts, or it carries on with what the buffer
\* holds of the payload.
SlotOutcomes(nd, f, past) ==
  IF past = 0 THEN {UniRecvCb(nd, f)}
  ELSE { UniInit(nd.room, nd.tail, nd.esn),
         UniRecvCb(nd, [f EXCEPT !.frag_len = f.frag_len - past,
                                 !.data = SubSeq(f.data, 1, f.frag_len - past)]) }

\* lastRx tells whether the callback copied the payload, for which index, the
\* bytes of the buffer the copy changed and how many it wrote past its end.
SlotRecv(f) ==
  LET rb     == SlotBuffer(uni, f)
      stored == UniAccepts(uni, f) /\ f.index < rb.total /\ ~rb.have[f.index + 1]
      after  == StoreFrag(rb, f)
      past   == IF stored THEN PastEnd(rb, f) ELSE 0
  IN /\ RunU22
     /\ uni' \in SlotOutcomes(uni, f, past)
     /\ lastRx' = IF stored
                  THEN [stored |-> TRUE, index |-> f.index,
                        wrote |-> {i \in 1..Len(rb.data) : after.data[i] # rb.data[i]},
                        past |-> past]
                  ELSE [stored |-> FALSE, index |-> 0, wrote |-> {}, past |-> 0]
     /\ UNCHANGED <<obs, got, handled, fwdCount>>

NextSlot == \E f \in SlotFrags(uni.room) : SlotRecv(f)

InitSlot ==
  /\ InitU22("slot")
  /\ ~uni.tail

SpecSlot == InitSlot /\ [][NextSlot]_vars

\* C36: the payload of every accepted fragment, whatever frag_len a 250-byte
\* datagram lets it carry, is written inside the 200-byte slot of its own index:
\* no byte of another index's slot changes and none lands past the buffer's end.
SlotWriteConfined ==
  lastRx # NoRx /\ lastRx.stored =>
    /\ lastRx.wrote \subseteq
         (lastRx.index * ESN_FRAG_DATA_MAX + 1)..((lastRx.index + 1) * ESN_FRAG_DATA_MAX)
    /\ lastRx.past = 0

---------------------------------------------------------------------------
(* Unified v2.2: a reassembled message that fails the CRC check *)

\* Fragments of upstream messages, intact and with a damaged checksum, under
\* the same (origin, batch, seq, src_room)
CrcFrags(room) ==
  UNION {FragsOf(room - 1, m) \cup FragsOf(room - 1, BadCrc(m)) : m \in {MsgSmall, MsgMid, MsgEnd}}

\* lastRx tells what the callback completed (a message whose CRC fails or an
\* intact one), the seen cache and the table before it, and whether an intact
\* message of this key was processed before; handled collects those keys.
CrcRecv(f) ==
  /\ RunU22
  /\ \E nd \in {UniRecvCb(uni, f)} :
       LET done == nd.reasm # <<>>
           good == done /\ CrcValid(nd.reasm[1])
       IN /\ uni' = nd
          /\ lastRx' = [kind  |-> IF ~done THEN "part" ELSE IF good THEN "intact" ELSE "crcfail",
                        key   |-> FragKey(f),
                        seen  |-> uni.seenCache,
                        best  |-> uni.bestRssi,
                        first |-> FragKey(f) \notin handled]
          /\ handled' = IF good THEN handled \cup {FragKey(f)} ELSE handled
  /\ UNCHANGED <<obs, got, fwdCount>>

NextCrc == \E f \in CrcFrags(uni.room) : CrcRecv(f)

InitCrc == InitU22("crc")

SpecCrc == InitCrc /\ [][NextCrc]_vars

\* C37: a reassembled message that fails the CRC check changes no protocol
\* state - the seen cache and the table are what they were, nothing is printed
\* or forwarded - and the first intact message of a key is handed on to
\* processDecodedMessage whether or not a damaged one of the same key came
\* before it.
CrcFailLeavesNoTrace ==
  /\ lastRx # NoRx /\ lastRx.kind = "crcfail"
       => /\ uni.seenCache = lastRx.seen
          /\ uni.bestRssi = lastRx.best
          /\ uni.printed = {} /\ uni.sent = <<>>
  /\ lastRx # NoRx /\ lastRx.kind = "intact" /\ lastRx.first
       => uni.proc # "dupkey"

---------------------------------------------------------------------------
(* ICE framed sender: the messages of the scan windows *)

UART_PAYLOAD_TARGET == 900

\* DATA messages a scan window has time to write before a further result is held back
MaxSeq == 2

\* Globals after setup(). head is the header begin_message wrote into msg_buf;
\* out lists the messages written to UART1, by the fields of their headers.
IceInit ==
  [ g_batch |-> 0, g_seq |-> 0,
    head |-> [type |-> MT_DATA, batch |-> 0, seq |-> 0],
    payload_len |-> 0, pending_count |-> 0,
    scanning |-> FALSE,
    out |-> <<>> ]

\* begin_message(type): the header takes g_batch and g_seq as they are now
BeginMsg(ice, type) ==
  [ice EXCEPT !.head = [type |-> type, batch |-> ice.g_batch, seq |-> ice.g_seq],
              !.payload_len = 0]

\* A finish that leaves the sequence counter alone.
FinishKeepsSeq(ice, count) ==
  [ice EXCEPT !.out = Append(ice.out, [type |-> ice.head.type, batch |-> ice.head.batch,
                                       seq |-> ice.head.seq, some |-> count > 0])]

\* finish_and_send_message(count): COUNT, CRC, COBS, write; g_seq++
FinishAndSend(ice, count) ==
  [ice EXCEPT !.out = Append(ice.out, [type |-> ice.head.type, batch |-> ice.head.batch,
                                       seq |-> ice.head.seq, some |-> count > 0]),
              !.g_seq = (ice.g_seq + 1) % 65536]

\* size_t need = (2+6) + (2+1) + (2+1) + (name.length() ? (2+name.length()) : 0)
NeedOf(nameLen) == 8 + 3 + 3 + (IF nameLen > 0 THEN 2 + nameLen ELSE 0)

\* append_device_record: FALSE when the record does not fit in msg_buf
RecordFits(ice, need) == ~(MsgHeaderLen + ice.payload_len + need >= MSG_MAX - 2)

AppendRecord(ice, need) ==
  IF RecordFits(ice, need) THEN [ice EXCEPT !.payload_len = @ + need] ELSE ice

\* IceScanCB::onResult for an advertisement whose record takes need bytes
onResult(ice, need) ==
  LET i0 == IF ice.payload_len = 0
            THEN [BeginMsg(ice, MT_DATA) EXCEPT !.pending_count = 0] ELSE ice
      i1 == IF ~RecordFits(i0, need)
            THEN AppendRecord([BeginMsg(FinishAndSend(i0, i0.pending_count), MT_DATA)
                                 EXCEPT !.pending_count = 0], need)
            ELSE AppendRecord(i0, need)
      i2 == [i1 EXCEPT !.pending_count = (@ + 1) % 65536]
  IN IF i2.payload_len >= UART_PAYLOAD_TARGET
     THEN [BeginMsg(FinishAndSend(i2, i2.pending_count), MT_DATA) EXCEPT !.pending_count = 0]
     ELSE i2

\* loop(), up to the start of the scan: g_seq = 0
loopStart(ice) == [ice EXCEPT !.g_seq = 0, !.scanning = TRUE]

\* loop(), after the scan: flush the partial message, END marker, g_batch++
\* (a uint32_t, which the windows explored leave far below its wrap)
loopEnd(ice) ==
  LET i0 == IF ice.payload_len > 0 /\ ice.pending_count > 0
            THEN [FinishAndSend(ice, ice.pending_count) EXCEPT !.pending_count = 0]
            ELSE ice
      i1 == FinishAndSend(BeginMsg(i0, MT_END), 0)
  IN [i1 EXCEPT !.g_batch = @ + 1, !.scanning = FALSE]

\* Advertisements: without a name, and with a name of NAME_MAX_LEN characters
NameLens == {0, NAME_MAX_LEN}

RunIce ==
  /\ fw = "ice"
  /\ UNCHANGED <<fw, audit, smoke, uni, agg, air, hist>>

\* The sender's state is kept in chain.
IceLoopStart ==
  /\ RunIce
  /\ ~chain.scanning
  /\ chain.g_batch <= MaxBatch
  /\ chain' = loopStart(chain)

IceResult(nameLen) ==
  /\ RunIce
  /\ chain.scanning
  /\ chain.g_seq <= MaxSeq
  /\ chain' = onResult(chain, NeedOf(nameLen))

IceWindowEnd ==
  /\ RunIce
  /\ chain.scanning
  /\ chain' = loopEnd(chain)

NextIce ==
  \/ IceLoopStart
  \/ \E n \in NameLens : IceResult(n)
  \/ IceWindowEnd

InitIce ==
  /\ fw = "ice"
  /\ audit = "ice"
  /\ chain = IceInit
  /\ smoke = 0 /\ uni = 0 /\ agg = 0 /\ air = 0
  /\ HistInit
  /\ obs = 0

SpecIce == InitIce /\ [][NextIce]_vars

\* The messages written for batch b, in the order they were written
OutOf(b) == SelectSeq(chain.out, LAMBDA m : m.batch = b)

\* C38: every scan window writes exactly one END_OF_SCAN message, after all its
\* DATA messages; the messages of a window carry one batch id and the seq values
\* 0, 1, 2, ... in order; the batch id grows by one from a window to the next;
\* no (batch, seq) pair is written twice.
IceBatchProtocol ==
  /\ \A i \in 1..Len(chain.out) :
       LET m == chain.out[i]
       IN /\ m.batch \in 0..chain.g_batch
          /\ i > 1 => m.batch = chain.out[i - 1].batch
                        + (IF chain.out[i - 1].type = MT_END THEN 1 ELSE 0)
          /\ i = 1 => m.batch = 0
          /\ m.type = MT_DATA => m.some
  /\ \A b \in 0..chain.g_batch :
       LET w == OutOf(b)
       IN /\ \A k \in 1..Len(w) : w[k].seq = k - 1
          /\ \A k \in 1..Len(w) : w[k].type = MT_END => k = Len(w)
          /\ b < chain.g_batch => Len(w) > 0 /\ w[Len(w)].type = MT_END
  /\ \A i, j \in 1..Len(chain.out) :
       i # j => <<chain.out[i].batch, chain.out[i].seq>> # <<chain.out[j].batch, chain.out[j].seq>>

\* Two windows are over: the first wrote two DATA messages (one sent at the
\* payload target, one flushed by loop()) and its END, the second followed
\* under the next batch id.
TwoWindowsWritten ==
  /\ fw = "ice" /\ chain.g_batch = 2 /\ ~chain.scanning
  /\ Len(OutOf(0)) = 3 /\ OutOf(0)[3].type = MT_END
  /\ Len(OutOf(1)) >= 2 /\ OutOf(1)[1].type = MT_DATA


----------------------------------------------------------------------------
(* text-AGG: CFG: messages addressed to one node by mac= *)

RoomKey == <<"r", "o", "o", "m", "=">>
ClearKey == <<"c", "l", "e", "a", "r", "=">>

\* The values a mac= field carries: the addresses of the two nodes and of a
\* third, and values that are no address (two groups, one digit short, empty).
TargetFields ==
  { macToStr(TailMac), macToStr(MacOf(1)), macToStr(MacOf(3)),
    <<"A", "A", ":", "B", "B">>,
    <<"A", "A", ":", "B", "B", ":", "C", "C", ":", "0", "0", ":", "0", "0", ":", "1">>,
    <<"x">> }

\* The keys that follow the mac= field
TargetKeys ==
  { RoomKey \o <<"7">>,
    TailKey \o <<"1">>,
    TailKey \o <<"0">>,
    NextKey \o macToStr(MacOf(3)),
    ClearKey \o <<"1">> }

TargetMsg(field, keys) == CfgPrefix \o MacKey \o field \o <<",">> \o keys

RunTarget ==
  /\ fw = "aggtarget"
  /\ UNCHANGED <<fw, audit, smoke, uni, chain, air, obs, merged, rxFor, rxIdx, rxTotal,
                 finalCount, fwdCount, got, handled, winners>>

\* A CFG: datagram with a mac= field arrives; base keeps the node before it,
\* lastRx the value of the field.
TargetRecv(field, keys) ==
  /\ RunTarget
  /\ agg' = onRecv(agg, TargetMsg(field, keys))
  /\ base' = agg
  /\ lastRx' = [kind |-> "cfg", field |-> field]
  /\ UNCHANGED flushes

\* An AGG: datagram of the node upstream arrives
TargetAggRecv ==
  /\ RunTarget
  /\ agg' = onRecv(agg, CfgData)
  /\ base' = agg
  /\ lastRx' = [kind |-> "agg", field |-> <<>>]
  /\ UNCHANGED flushes

\* The flush period elapses
TargetFlush ==
  /\ RunTarget
  /\ flushes < MaxFlush
  /\ agg' = forwardAggOrPrint(agg)
  /\ flushes' = flushes + 1
  /\ base' = agg
  /\ lastRx' = [kind |-> "flush", field |-> <<>>]

NextTarget ==
  \/ \E field \in TargetFields, keys \in TargetKeys : TargetRecv(field, keys)
  \/ TargetAggRecv
  \/ TargetFlush

InitTarget ==
  /\ fw = "aggtarget"
  /\ audit = "target"
  /\ agg \in AggNodes
  /\ base = agg
  /\ smoke = 0 /\ uni = 0 /\ chain = 0 /\ air = 0
  /\ obs = 0 /\ merged = 0 /\ winners = 0
  /\ flushes = 0
  /\ rxFor = 0 /\ rxIdx = 0 /\ rxTotal = 0 /\ finalCount = 0 /\ fwdCount = 0
  /\ got = 0 /\ handled = 0
  /\ lastRx = [kind |-> "none", field |-> <<>>]

SpecTarget == InitTarget /\ [][NextTarget]_vars

\* C39: a CFG message whose mac= field is not the node's own address leaves
\* the node's room, tail flag, next-hop address and strength tables unchanged.
CfgOnlyForAddressee ==
  fw = "aggtarget" /\ lastRx.kind = "cfg" /\ lastRx.field # macToStr(agg.mac)
    => /\ agg.roomNo = base.roomNo
       /\ agg.isTail = base.isTail
       /\ agg.nextMac = base.nextMac
       /\ agg.bestStr = base.bestStr
       /\ agg.bestRoom = base.bestRoom

\* The same for the fields that are an address (the case the filter handles)
CfgOtherAddressSkipped ==
  fw = "aggtarget" /\ lastRx.kind = "cfg" /\ lastRx.field # macToStr(agg.mac)
    /\ strToMac(lastRx.field).ok
    => /\ agg.roomNo = base.roomNo
       /\ agg.isTail = base.isTail
       /\ agg.nextMac = base.nextMac
       /\ agg.bestStr = base.bestStr
       /\ agg.bestRoom = base.bestRoom
       /\ agg.prefs = base.prefs


----------------------------------------------------------------------------
(* SMOKE v3: the ESP-NOW peer and the destination of the fragments *)

\* T a[n] = {v1, ..., vk}: the elements the list does not reach are zero
ArrayInit(n, inits) == [i \in 1..n |-> IF i <= Len(inits) THEN inits[i] ELSE 0]

\* static uint8_t ESN_BROADCAST[6] = {0xFF,0xFF,0xFF,0xFF,0xFF};
ESN_BROADCAST == ArrayInit(6, <<255, 255, 255, 255, 255>>)

\* FF:FF:FF:FF:FF:FF
BroadcastAddr == [i \in 1..6 |-> 255]

\* air keeps the radio: esnInited, the peers registered, and the destination
\* of every esp_now_send.
RunDest ==
  /\ fw = "v3dest"
  /\ UNCHANGED <<fw, audit, uni, agg, chain, obs, base, merged, rxFor, rxIdx, rxTotal,
                 finalCount, fwdCount, got, handled, flushes, winners, lastRx>>

\* What esp_now_send was called with for the fragments of nd.sent
DestsOf(nd) == IF air.inited /\ nd.sent # <<>> THEN {ESN_BROADCAST} ELSE {}

\* esn_setup: esp_now_init, then the peer is added
DestSetup ==
  /\ RunDest
  /\ air' = [air EXCEPT !.inited = TRUE, !.peers = @ \cup {ESN_BROADCAST}]
  /\ smoke' = [smoke EXCEPT !.sent = <<>>, !.final = NoFinal]

\* A "NAME@RSSI" line of the scanner
DestLine(dev, rssi) ==
  /\ RunDest
  /\ smoke' = RecordLine(smoke, dev, rssi)
  /\ UNCHANGED air

\* The END marker: room 1 sends its fragments (esn_send_entries returns at
\* once while ESP-NOW is not set up)
DestEnd ==
  /\ RunDest
  /\ smoke.room = 1 => smoke.batch <= MaxBatch
  /\ \E nd \in {EndOfScan(smoke)} :
       /\ smoke' = IF air.inited THEN nd ELSE [nd EXCEPT !.sent = <<>>]
       /\ air' = [air EXCEPT !.dests = @ \cup DestsOf(nd)]

\* The receive callback (registered by esn_setup): a relay sends upstream
DestRecv(d) ==
  /\ RunDest
  /\ air.inited
  /\ \E nd \in {RecvCb(smoke, d)} :
       /\ smoke' = nd
       /\ air' = [air EXCEPT !.dests = @ \cup DestsOf(nd)]

NextDest ==
  \/ DestSetup
  \/ \E l \in Dev \X {SetMax(RssiVals)} : DestLine(l[1], l[2])
  \/ DestEnd
  \/ \E d \in Datagrams(smoke.room) : DestRecv(d)

InitDest ==
  /\ fw = "v3dest"
  /\ audit = "dest"
  /\ smoke \in {SmokeInit(room, tail) : room \in NodeRooms, tail \in BOOLEAN}
  /\ uni = 0 /\ agg = 0 /\ chain = 0
  /\ air = [inited |-> FALSE, peers |-> {}, dests |-> {}]
  /\ HistInit
  /\ obs = 0

SpecDest == InitDest /\ [][NextDest]_vars

\* C40: the peer registered and the destination of every esp_now_send are
\* the broadcast address FF:FF:FF:FF:FF:FF.
DestIsBroadcast ==
  fw = "v3dest" => \A a \in air.peers \cup air.dests : a = BroadcastAddr

\* Fragments have been sent, one destination only, and it is the peer
DestIsPeer ==
  fw = "v3dest" /\ air.dests # {} => air.dests = air.peers

FragmentsSent == fw = "v3dest" /\ air.dests # {}

=============================================================================
